---- MODULE Spec2Model ----
(***************************************************************************)
(* The inbound WebSocket frame parser of src/WebSocketProtocol.h           *)
(* (WebSocketProtocol<isServer, Impl>::consume and its helpers), modelled  *)
(* at byte level: the receive buffer is a byte array with the padding the  *)
(* parser writes into, WebSocketState is a record, and every callback of   *)
(* Impl is logged in the order the parser makes it.                        *)
(***************************************************************************)
EXTENDS Integers, Sequences, FiniteSets, TLC

VARIABLES
    isServer,       \* template parameter isServer of the parser of this connection
    compressedOk,   \* what Impl::setCompressed answers on this connection
    maxPayload,     \* Impl::refusePayloadLength refuses above this (-1: never refuses)
    mayStop,        \* the handler may return true on the first mayStop calls of a consume
    wire,           \* the inbound byte stream of the connection
    pos,            \* how many bytes of wire the transport has handed to consume or,
                    \* once the connection is closed, dropped
    ws,             \* the WebSocketState of the connection
    frags,          \* all handleFragment calls so far, joined per frame
    term,           \* the callbacks of the most recent consume call, from the first
                    \* one that ends parsing on (without their payload bytes)
    closed,         \* "open", "forceClosed" or "handlerStopped"; "crashed" or
                    \* "corrupted" after undefined behaviour; "hung" when
                    \* consume does not return
    rest,           \* the bytes the most recent consume call had left at its spill step
    compressedCalls,    \* how many setCompressed calls the parser has made, counted
                        \* up to MaxCompressedCalls
    args,           \* the function applied outside a connection, and its arguments
    result,         \* <<>> until it has been applied, then <<what it gave>>
    objects,        \* the any_invocable objects A, B, C of a program
    last,           \* the most recent operation on them and the objects before it
    lifetime        \* of each callable: "none" until it is wrapped, then "live",
                    \* "destroyed" once its destructor has run, "destroyedAgain"
                    \* when it has run more than once

vars ==
    <<isServer, compressedOk, maxPayload, mayStop, wire, pos, ws, frags, term, closed,
      rest, compressedCalls, args, result, objects, last, lifetime>>

(***************************************************************************)
(* Bounds of the model.                                                    *)
(***************************************************************************)
\* largest payload length of a generated data frame of the chunking family
MaxPayload == 8
\* number of frames of a generated stream of the fragmentation family
MaxFrames == 3
\* the payload length above which the handler of the limit family refuses a frame
PayloadLimit == 2
\* largest length of the close reasons that are enumerated byte by byte
MaxReason == 3
\* the longest buffer made of every combination of Utf8Bytes
MaxUtf8 == 2
\* the count of setCompressed calls stops at this number
MaxCompressedCalls == 3
\* how many callables of each size a program constructs invocables from
NumCallables == 2
\* the payload bytes present behind a header that declares 2^32 bytes or more
HugePresent == 3

(***************************************************************************)
(* Program constants.                                                      *)
(***************************************************************************)
CONTINUATION == 0
TEXT == 1
BINARY == 2
CLOSE == 8
PING == 9
PONG == 10

ERR_TOO_BIG_MESSAGE == "Received too big message"
ERR_PROTOCOL == "Received invalid WebSocket frame"

SHORT_MESSAGE_HEADER(srv) == IF srv THEN 6 ELSE 2
MEDIUM_MESSAGE_HEADER(srv) == IF srv THEN 8 ELSE 4
LONG_MESSAGE_HEADER(srv) == IF srv THEN 14 ELSE 10

CONSUME_POST_PADDING == 4
CONSUME_PRE_PADDING(srv) == LONG_MESSAGE_HEADER(srv) - 1

\* the length of a full receive buffer, for which consumeContinuation unmasks
\* with unmaskAll
LIBUS_RECV_BUFFER_LENGTH == 524288

(***************************************************************************)
(* Bytes and fixed-width unsigned integers.  A 64-bit value is four 16-bit *)
(* words and a 32-bit value two, least significant word first, so that the *)
(* parser's arithmetic keeps its width.                                    *)
(***************************************************************************)
Word == 65536

XorBit(a, b, k) == ((((a \div k) % 2) + ((b \div k) % 2)) % 2) * k

\* a ^ b on two bytes
Xor(a, b) ==
    XorBit(a, b, 1) + XorBit(a, b, 2) + XorBit(a, b, 4) + XorBit(a, b, 8)
    + XorBit(a, b, 16) + XorBit(a, b, 32) + XorBit(a, b, 64) + XorBit(a, b, 128)

\* a payload length of type uint8_t or uint16_t, widened
U64OfSmall(n) == <<n % Word, n \div Word, 0, 0>>

\* cond_byte_swap<uint16_t>(bit_cast<uint16_t>(src + 2)): bytes 2..3, big-endian
U64OfBytes2(b) == <<b[1] * 256 + b[2], 0, 0, 0>>

\* cond_byte_swap<uint64_t>(bit_cast<uint64_t>(src + 2)): bytes 2..9, big-endian
U64OfBytes8(b) ==
    <<b[7] * 256 + b[8], b[5] * 256 + b[6], b[3] * 256 + b[4], b[1] * 256 + b[2]>>

\* x + n modulo 2^64, for 0 <= n < 2^16
U64Add(x, n) ==
    LET s0 == x[1] + n
        s1 == x[2] + (s0 \div Word)
        s2 == x[3] + (s1 \div Word)
        s3 == x[4] + (s2 \div Word)
    IN  <<s0 % Word, s1 % Word, s2 % Word, s3 % Word>>

\* x <= n for a 64-bit x and 0 <= n < 2^31
U64Le(x, n) ==
    /\ x[4] = 0
    /\ x[3] = 0
    /\ x[2] < 32768
    /\ x[2] * Word + x[1] <= n

\* the value of a 64-bit x that is below 2^31
U64Val(x) == x[2] * Word + x[1]

\* (unsigned int) x
U32OfU64(x) == <<x[1], x[2]>>

\* r + d modulo 2^32, for -2^16 < d < 2^16
U32Add(r, d) ==
    LET s0 == r[1] + d
    IN  <<s0 % Word, (r[2] + (s0 \div Word)) % Word>>

\* r <= n for a 32-bit r and 0 <= n < 2^31
U32Le(r, n) == r[2] < 32768 /\ r[2] * Word + r[1] <= n

\* the value of a 32-bit r that is below 2^31
U32Val(r) == r[2] * Word + r[1]

U32Zero == <<0, 0>>

(***************************************************************************)
(* The header bits.                                                        *)
(***************************************************************************)
isFin(b) == (b \div 128) % 2 = 1
getOpCode(b) == b % 16
payloadLength(b) == b % 128
rsv23(b) == (b \div 16) % 4 # 0
rsv1(b) == (b \div 64) % 2 = 1

(***************************************************************************)
(* The receive buffer of one consume call: a byte array whose index is the *)
(* address.  It holds CONSUME_PRE_PADDING bytes, the bytes the transport   *)
(* read, and the bytes behind them that the imprecise unmasking reaches.   *)
(***************************************************************************)
Peek(mem, a) == IF a \in DOMAIN mem THEN mem[a] ELSE 0

Bytes(mem, a, n) == [i \in 1..n |-> Peek(mem, a + i - 1)]

\* memcpy(mem + a, bs, Len(bs))
Store(mem, a, bs) ==
    [x \in DOMAIN mem |-> IF x - a + 1 \in DOMAIN bs THEN bs[x - a + 1] ELSE mem[x]]

\* one pass of the loops of unmaskImprecise8 / unmaskImprecise4: W bytes at src
\* are loaded, XORed with the mask and stored DESTINATION bytes lower
RECURSIVE UnmaskBlocks(_, _, _, _, _, _)
UnmaskBlocks(mem, src, mask, n, W, DESTINATION) ==
    IF n = 0 THEN mem
    ELSE LET loaded == [i \in 1..W |-> Xor(Peek(mem, src + i - 1), mask[((i - 1) % 4) + 1])]
         IN  UnmaskBlocks(Store(mem, src - DESTINATION, loaded), src + W, mask,
                          n - 1, W, DESTINATION)

unmaskImprecise8(mem, src, mask, length, DESTINATION) ==
    UnmaskBlocks(mem, src, mask, (length \div 8) + 1, 8, DESTINATION)

unmaskImprecise4(mem, src, mask, length, DESTINATION) ==
    UnmaskBlocks(mem, src, mask, (length \div 4) + 1, 4, DESTINATION)

\* the unmasking that takes blocks of 8 bytes for every header size
unmaskImpreciseCopyMaskByEights(mem, src, length, HEADER_SIZE) ==
    unmaskImprecise8(mem, src, Bytes(mem, src - 4, 4), length, HEADER_SIZE)

unmaskImpreciseCopyMask(mem, src, length, HEADER_SIZE) ==
    LET mask == Bytes(mem, src - 4, 4)
    IN  IF HEADER_SIZE # 6
        THEN unmaskImprecise8(mem, src, mask, length, HEADER_SIZE)
        ELSE unmaskImprecise4(mem, src, mask, length, HEADER_SIZE)

\* the mask left as it was
rotateMaskByNothing(offset, mask) == mask

rotateMask(offset, mask) ==
    [j \in 1..4 |-> mask[CHOOSE i \in 1..4 : ((i - 1 + offset) % 4) + 1 = j]]

RECURSIVE unmaskInplace(_, _, _, _)
unmaskInplace(mem, data, stop, mask) ==
    IF data < stop
    THEN unmaskInplace(
             Store(mem, data, [i \in 1..4 |-> Xor(Peek(mem, data + i - 1), mask[i])]),
             data + 4, stop, mask)
    ELSE mem

unmaskAll(mem, data, mask) ==
    [x \in DOMAIN mem |->
        IF x - data \in 0..(LIBUS_RECV_BUFFER_LENGTH - 1)
        THEN Xor(mem[x], mask[((x - data) % 4) + 1])
        ELSE mem[x]]

(***************************************************************************)
(* WebSocketState and the callbacks of Impl.                               *)
(***************************************************************************)
\* state.spill is kept as its live part, the bytes below spillLength, which are
\* the only ones consume reads; the bytes above it are kept as 0
NoSpill(srv) == [i \in 1..(LONG_MESSAGE_HEADER(srv) - 1) |-> 0]

InitState(srv) ==
    [wantsHead |-> TRUE,
     spillLength |-> 0,
     opStack |-> -1,
     lastFin |-> TRUE,
     spill |-> NoSpill(srv),
     opCode |-> <<0, 0>>,
     remainingBytes |-> U32Zero,
     mask |-> <<0, 0, 0, 0>>]

\* one callback as the owner of the parser sees it; at is WebSocketState as the
\* parser left it when it made the call
Call(c, cb, reason, len, data, remaining, opCode, fin, ret) ==
    [cb |-> cb, reason |-> reason, len |-> len, data |-> data,
     remaining |-> remaining, opCode |-> opCode, fin |-> fin, ret |-> ret,
     at |-> c.ws]

forceClose(c, reason) ==
    [c EXCEPT !.calls =
        Append(@, Call(c, "forceClose", reason, U64OfSmall(0), <<>>, U32Zero, 0, FALSE, FALSE))]

\* the answer of Impl::setCompressed
setCompressedRet(c) == c.compressedOk

setCompressed(c) ==
    [c EXCEPT !.calls =
        Append(@, Call(c, "setCompressed", "", U64OfSmall(0), <<>>, U32Zero, 0, FALSE,
                       setCompressedRet(c)))]

\* the answer of Impl::refusePayloadLength
refusePayloadLengthRet(c, payLength) ==
    c.maxPayload # -1 /\ ~U64Le(payLength, c.maxPayload)

refusePayloadLength(c, payLength) ==
    [c EXCEPT !.calls =
        Append(@, Call(c, "refusePayloadLength", "", payLength, <<>>, U32Zero, 0, FALSE,
                       refusePayloadLengthRet(c, payLength)))]

\* the answer of Impl::handleFragment to the call the parser is about to make:
\* the handler closes the connection on call number c.stop of this consume
handleFragmentRet(c) == c.nfrag + 1 = c.stop

handleFragment(c, data, len, remaining, opCode, fin) ==
    [c EXCEPT !.calls =
        Append(@, Call(c, "handleFragment", "", len, data, remaining, opCode, fin,
                       handleFragmentRet(c))),
              !.nfrag = @ + 1]

Return(c, r) == [c EXCEPT !.ret = r]

(***************************************************************************)
(* consumeMessage<MESSAGE_HEADER, T>.  c is the running consume call: the  *)
(* buffer mem, the cursor src and length, WebSocketState ws, the callbacks *)
(* made so far, and ret, the value the function returns.                   *)
(***************************************************************************)
\* the order check without the test of a Continuation frame
OrderViolationOfNewMessagesOnly(state, op) ==
    op # 0 /\ (state.opStack = 1 \/ (~state.lastFin /\ op < 2))

\* the fragmentation-order check at the head of consumeMessage: TRUE when the
\* frame is a protocol error
OrderViolation(state, op) ==
    IF op # 0
    THEN state.opStack = 1 \/ (~state.lastFin /\ op < 2)
    ELSE state.opStack = -1

\* the push that moves opStack and leaves opCode as it was
PushOpCodeWithoutStore(state, op) ==
    IF op # 0
    THEN [state EXCEPT !.opStack = @ + 1]
    ELSE state

\* wState->state.opCode[++wState->state.opStack] = getOpCode(src), for op # 0
PushOpCode(state, op) ==
    IF op # 0
    THEN [state EXCEPT !.opStack = @ + 1, !.opCode[state.opStack + 2] = op]
    ELSE state

\* the opcode at the bottom of the stack, whatever its depth
BottomOpCode(state) == state.opCode[1]

\* wState->state.opCode[wState->state.opStack]; consumeMessage asks for it with
\* opStack 0 or 1 only, and an index outside the array reads as 0 here
TopOpCode(state) ==
    IF state.opStack + 1 \in DOMAIN state.opCode
    THEN state.opCode[state.opStack + 1]
    ELSE 0

\* the branch for a whole frame without the test of what handleFragment returned
MessageCompleteUnchecked(c, MESSAGE_HEADER, payLength) ==
    LET n == U64Val(payLength)
        fin == isFin(Peek(c.mem, c.src))
        mem1 == IF c.srv
                THEN unmaskImpreciseCopyMask(c.mem, c.src + MESSAGE_HEADER, n, MESSAGE_HEADER)
                ELSE c.mem
        data == IF c.srv
                THEN Bytes(mem1, c.src, n)
                ELSE Bytes(mem1, c.src + MESSAGE_HEADER, n)
        c1 == handleFragment([c EXCEPT !.mem = mem1], data, payLength, U32Zero,
                             TopOpCode(c.ws), fin)
    IN  Return([c1 EXCEPT !.ws.opStack = IF fin THEN @ - 1 ELSE @,
                          !.src = @ + n + MESSAGE_HEADER,
                          !.length = @ - (n + MESSAGE_HEADER),
                          !.ws.spillLength = 0,
                          !.ws.spill = NoSpill(c.srv)],
               FALSE)

\* the branch for a whole frame that leaves opStack where the push put it
MessageCompleteWithoutPop(c, MESSAGE_HEADER, payLength) ==
    LET n == U64Val(payLength)
        fin == isFin(Peek(c.mem, c.src))
        mem1 == IF c.srv
                THEN unmaskImpreciseCopyMask(c.mem, c.src + MESSAGE_HEADER, n, MESSAGE_HEADER)
                ELSE c.mem
        data == IF c.srv
                THEN Bytes(mem1, c.src, n)
                ELSE Bytes(mem1, c.src + MESSAGE_HEADER, n)
        c1 == handleFragment([c EXCEPT !.mem = mem1], data, payLength, U32Zero,
                             TopOpCode(c.ws), fin)
    IN  IF handleFragmentRet(c)
        THEN Return(c1, TRUE)
        ELSE Return([c1 EXCEPT !.src = @ + n + MESSAGE_HEADER,
                               !.length = @ - (n + MESSAGE_HEADER),
                               !.ws.spillLength = 0,
                               !.ws.spill = NoSpill(c.srv)],
                    FALSE)

\* the branch payLength + MESSAGE_HEADER <= length with the frame whole in
\* the buffer
MessageComplete(c, MESSAGE_HEADER, payLength) ==
    LET n == U64Val(payLength)
        fin == isFin(Peek(c.mem, c.src))
        mem1 == IF c.srv
                THEN unmaskImpreciseCopyMask(c.mem, c.src + MESSAGE_HEADER, n, MESSAGE_HEADER)
                ELSE c.mem
        data == IF c.srv
                THEN Bytes(mem1, c.src, n)
                ELSE Bytes(mem1, c.src + MESSAGE_HEADER, n)
        c1 == handleFragment([c EXCEPT !.mem = mem1], data, payLength, U32Zero,
                             TopOpCode(c.ws), fin)
    IN  IF handleFragmentRet(c)
        THEN Return(c1, TRUE)
        ELSE Return([c1 EXCEPT !.ws.opStack = IF fin THEN @ - 1 ELSE @,
                               !.src = @ + n + MESSAGE_HEADER,
                               !.length = @ - (n + MESSAGE_HEADER),
                               !.ws.spillLength = 0,
                               !.ws.spill = NoSpill(c.srv)],
                    FALSE)

\* the else branch that leaves spillLength and spill as the prologue of consume
\* found them
MessageIncompleteKeepingSpill(c, MESSAGE_HEADER, payLength) ==
    LET remaining == U32Add(U32OfU64(payLength), MESSAGE_HEADER - c.length)
        fin == isFin(Peek(c.mem, c.src))
        key == Bytes(c.mem, c.src + MESSAGE_HEADER - 4, 4)
        mem1 == IF c.srv
                THEN unmaskImprecise8(c.mem, c.src + MESSAGE_HEADER, key, c.length, 0)
                ELSE c.mem
        ws1 == [c.ws EXCEPT !.wantsHead = FALSE,
                            !.remainingBytes = remaining,
                            !.mask = IF c.srv
                                     THEN rotateMask(4 - ((c.length - MESSAGE_HEADER) % 4), key)
                                     ELSE @]
    IN  Return(handleFragment([c EXCEPT !.mem = mem1, !.ws = ws1],
                              Bytes(mem1, c.src + MESSAGE_HEADER, c.length - MESSAGE_HEADER),
                              U64OfSmall(c.length - MESSAGE_HEADER), remaining,
                              TopOpCode(ws1), fin),
               TRUE)

\* the else branch: the payload reaches beyond the buffer
MessageIncomplete(c, MESSAGE_HEADER, payLength) ==
    LET remaining == U32Add(U32OfU64(payLength), MESSAGE_HEADER - c.length)
        fin == isFin(Peek(c.mem, c.src))
        key == Bytes(c.mem, c.src + MESSAGE_HEADER - 4, 4)
        mem1 == IF c.srv
                THEN unmaskImprecise8(c.mem, c.src + MESSAGE_HEADER, key, c.length, 0)
                ELSE c.mem
        ws1 == [c.ws EXCEPT !.spillLength = 0,
                            !.spill = NoSpill(c.srv),
                            !.wantsHead = FALSE,
                            !.remainingBytes = remaining,
                            !.mask = IF c.srv
                                     THEN rotateMask(4 - ((c.length - MESSAGE_HEADER) % 4), key)
                                     ELSE @]
    IN  Return(handleFragment([c EXCEPT !.mem = mem1, !.ws = ws1],
                              Bytes(mem1, c.src + MESSAGE_HEADER, c.length - MESSAGE_HEADER),
                              U64OfSmall(c.length - MESSAGE_HEADER), remaining,
                              TopOpCode(ws1), fin),
               TRUE)

\* src += payLength + MESSAGE_HEADER and length -= (unsigned int) (payLength +
\* MESSAGE_HEADER) leave the cursor where it is, a client has written nothing to
\* the buffer, and a final Text or Binary frame leaves opStack where it was and
\* lastFin true: when no handleFragment call returns true, the next iteration
\* of the loop in consume is this one again
SameHeaderAgain(c, MESSAGE_HEADER, payLength) ==
    /\ U64Add(payLength, MESSAGE_HEADER) = U64OfSmall(0)
    /\ ~c.srv
    /\ isFin(Peek(c.mem, c.src))
    /\ getOpCode(Peek(c.mem, c.src)) \in {TEXT, BINARY}
    /\ c.stop = 0

\* the branch payLength + MESSAGE_HEADER <= length taken with a payload that is
\* not in the buffer (the sum has wrapped around 2^64): unmaskImpreciseCopyMask
\* is given (unsigned int) payLength bytes and handleFragment payLength bytes
\* from src on, src and length then move by the wrapped sum.  The behaviour is
\* undefined; the call is recorded as "beyondBuffer" and parsing ends here.
\* again tells whether the loop at parseNext, should every handleFragment return
\* false, comes back to this header for ever
MessageBeyondBuffer(c, MESSAGE_HEADER, payLength) ==
    Return([c EXCEPT !.calls =
               Append(@, Call(c, "beyondBuffer", "", payLength, <<>>, U32Zero,
                              TopOpCode(c.ws), isFin(Peek(c.mem, c.src)), FALSE)),
                     !.again = SameHeaderAgain(c, MESSAGE_HEADER, payLength)],
           TRUE)

\* the branch payLength + MESSAGE_HEADER <= length
MessageInBuffer(c, MESSAGE_HEADER, payLength) ==
    IF U64Le(payLength, c.length - MESSAGE_HEADER)
    THEN MessageComplete(c, MESSAGE_HEADER, payLength)
    ELSE MessageBeyondBuffer(c, MESSAGE_HEADER, payLength)

\* consumeMessage without the question to refusePayloadLength
consumeMessageOfAnyLength(c, MESSAGE_HEADER, payLength) ==
    LET b0 == Peek(c.mem, c.src)
        op == getOpCode(b0)
    IN  IF OrderViolation(c.ws, op)
        THEN Return(forceClose(c, ERR_PROTOCOL), TRUE)
        ELSE LET c1 == [c EXCEPT !.ws = [PushOpCode(c.ws, op) EXCEPT !.lastFin = isFin(b0)]]
             IN  IF U64Le(U64Add(payLength, MESSAGE_HEADER), c.length)
                 THEN MessageInBuffer(c1, MESSAGE_HEADER, payLength)
                 ELSE MessageIncomplete(c1, MESSAGE_HEADER, payLength)

consumeMessage(c, MESSAGE_HEADER, payLength) ==
    LET b0 == Peek(c.mem, c.src)
        op == getOpCode(b0)
    IN  IF OrderViolation(c.ws, op)
        THEN Return(forceClose(c, ERR_PROTOCOL), TRUE)
        ELSE LET c1 == [c EXCEPT !.ws = [PushOpCode(c.ws, op) EXCEPT !.lastFin = isFin(b0)]]
                 c2 == refusePayloadLength(c1, payLength)
             IN  IF refusePayloadLengthRet(c1, payLength)
                 THEN Return(forceClose(c2, ERR_TOO_BIG_MESSAGE), TRUE)
                 ELSE IF U64Le(U64Add(payLength, MESSAGE_HEADER), c.length)
                      THEN MessageInBuffer(c2, MESSAGE_HEADER, payLength)
                      ELSE MessageIncomplete(c2, MESSAGE_HEADER, payLength)

(***************************************************************************)
(* consumeContinuation: the body of a frame whose header an earlier call   *)
(* consumed.                                                               *)
(***************************************************************************)
ContinuationComplete(c) ==
    LET rb == U32Val(c.ws.remainingBytes)
        n == rb \div 4
        mem1 == unmaskInplace(c.mem, c.src, c.src + n * 4, c.ws.mask)
        mem2 == IF c.srv
                THEN Store(mem1, c.src + n * 4,
                           [i \in 1..(rb % 4) |->
                               Xor(Peek(mem1, c.src + n * 4 + i - 1), c.ws.mask[i])])
                ELSE c.mem
        c1 == handleFragment([c EXCEPT !.mem = mem2], Bytes(mem2, c.src, rb),
                             U64OfSmall(rb), U32Zero, TopOpCode(c.ws), c.ws.lastFin)
    IN  IF handleFragmentRet(c)
        THEN Return(c1, FALSE)
        ELSE Return([c1 EXCEPT !.ws.opStack = IF c.ws.lastFin THEN @ - 1 ELSE @,
                               !.src = @ + rb,
                               !.length = @ - rb,
                               !.ws.wantsHead = TRUE],
                    TRUE)

ContinuationPartial(c) ==
    LET mem1 == IF c.srv /\ c.ws.mask # <<0, 0, 0, 0>>
                THEN IF LIBUS_RECV_BUFFER_LENGTH = c.length
                     THEN unmaskAll(c.mem, c.src, c.ws.mask)
                     ELSE unmaskInplace(c.mem, c.src,
                                        c.src + ((c.length \div 4) + 1) * 4, c.ws.mask)
                ELSE c.mem
        remaining == U32Add(c.ws.remainingBytes, 0 - c.length)
        c1 == handleFragment([c EXCEPT !.mem = mem1, !.ws.remainingBytes = remaining],
                             Bytes(mem1, c.src, c.length), U64OfSmall(c.length),
                             remaining, TopOpCode(c.ws), c.ws.lastFin)
    IN  IF handleFragmentRet(c)
        THEN Return(c1, FALSE)
        ELSE Return([c1 EXCEPT !.ws.mask =
                        IF c.srv /\ c.length % 4 # 0
                        THEN rotateMask(4 - (c.length % 4), @)
                        ELSE @],
                    FALSE)

consumeContinuation(c) ==
    IF U32Le(c.ws.remainingBytes, c.length)
    THEN ContinuationComplete(c)
    ELSE ContinuationPartial(c)

(***************************************************************************)
(* consume.                                                                *)
(***************************************************************************)
\* the header test with the length of a control frame compared to 126
InvalidHeaderAbove126(b0, b1, compressed) ==
    \/ (rsv1(b0) /\ ~compressed)
    \/ rsv23(b0)
    \/ (getOpCode(b0) > 2 /\ getOpCode(b0) < 8)
    \/ getOpCode(b0) > 10
    \/ (getOpCode(b0) > 2 /\ (~isFin(b0) \/ payloadLength(b1) > 126))

\* the test of the frame header at src, after setCompressed has answered
InvalidHeader(b0, b1, compressed) ==
    \/ (rsv1(b0) /\ ~compressed)
    \/ rsv23(b0)
    \/ (getOpCode(b0) > 2 /\ getOpCode(b0) < 8)
    \/ getOpCode(b0) > 10
    \/ (getOpCode(b0) > 2 /\ (~isFin(b0) \/ payloadLength(b1) > 125))

\* the spill step that sets spillLength and copies nothing
SpillRestWithoutCopy(c) ==
    IF c.length # 0
    THEN [c EXCEPT !.ws.spillLength = c.length % 16, !.rest = c.length]
    ELSE c

\* the bytes left when the header loop ends go to state.spill; rest keeps how
\* many they were
SpillRest(c) ==
    IF c.length # 0
    THEN [c EXCEPT !.ws.spill =
                       [i \in 1..Len(@) |->
                           IF i <= c.length THEN Peek(c.mem, c.src + i - 1) ELSE 0],
                   !.ws.spillLength = c.length % 16,
                   !.rest = c.length]
    ELSE c

\* the loop at parseNext, and the spill step behind it
RECURSIVE ParseNext(_)
ParseNext(c) ==
    IF c.length >= SHORT_MESSAGE_HEADER(c.srv)
    THEN LET b0 == Peek(c.mem, c.src)
             b1 == Peek(c.mem, c.src + 1)
             c1 == IF rsv1(b0) THEN setCompressed(c) ELSE c
             \* the template arguments of the consumeMessage the loop picks
             MESSAGE_HEADER ==
                 IF payloadLength(b1) < 126 THEN SHORT_MESSAGE_HEADER(c.srv)
                 ELSE IF payloadLength(b1) = 126 THEN MEDIUM_MESSAGE_HEADER(c.srv)
                 ELSE LONG_MESSAGE_HEADER(c.srv)
             payLength ==
                 IF payloadLength(b1) < 126 THEN U64OfSmall(payloadLength(b1))
                 ELSE IF payloadLength(b1) = 126
                 THEN U64OfBytes2(Bytes(c.mem, c.src + 2, 2))
                 ELSE U64OfBytes8(Bytes(c.mem, c.src + 2, 8))
         IN  IF InvalidHeader(b0, b1, setCompressedRet(c))
             THEN forceClose(c1, ERR_PROTOCOL)
             ELSE IF c.length < MESSAGE_HEADER
             THEN SpillRest(c1)
             ELSE LET m == consumeMessage(c1, MESSAGE_HEADER, payLength)
                  IN  IF m.ret THEN m ELSE ParseNext(m)
    ELSE SpillRest(c)

\* the buffer the transport hands over: chunk at src, CONSUME_PRE_PADDING bytes
\* before it, and the bytes behind it
ReceiveBuffer(srv, chunk) ==
    [i \in 1..CONSUME_PRE_PADDING(srv) |-> 0] \o chunk
        \o [i \in 1..(LONG_MESSAGE_HEADER(srv) + 8) |-> 0]

\* consume(src, length, wState, user) on the bytes chunk; stop is the number of
\* the handleFragment call, within this consume, on which the handler returns
\* true (0: on none).  The value is the call as it returns.
consume(srv, compressed, limit, state, chunk, stop) ==
    LET c0 == [srv |-> srv, compressedOk |-> compressed, maxPayload |-> limit,
               mem |-> ReceiveBuffer(srv, chunk),
               src |-> CONSUME_PRE_PADDING(srv) + 1,
               length |-> Len(chunk),
               ws |-> state, calls |-> <<>>, nfrag |-> 0, stop |-> stop, ret |-> FALSE,
               rest |-> 0, again |-> FALSE]
        c1 == IF state.spillLength # 0
              THEN [c0 EXCEPT !.src = @ - state.spillLength,
                              !.length = @ + state.spillLength,
                              !.mem = Store(@, c0.src - state.spillLength,
                                            SubSeq(state.spill, 1, state.spillLength))]
              ELSE c0
        k == IF state.wantsHead THEN c1 ELSE consumeContinuation(c1)
    IN  IF state.wantsHead \/ k.ret THEN ParseNext(k) ELSE k

\* opCode[opStack] of the WebSocketState at a call (15 when opStack is
\* outside the array)
OpCodeAtCall(call) ==
    IF call.at.opStack \in {0, 1} THEN call.at.opCode[call.at.opStack + 1] ELSE 15

(***************************************************************************)
(* The owner of the parser: what it keeps of the handleFragment calls.     *)
(***************************************************************************)
\* the calls of one frame joined: the opcode and FIN flag of its first call, its
\* payload so far, the remainingBytes of its latest call (0 ends the frame),
\* whether every call of the frame carried the same opcode and FIN flag, the sum
\* of the length arguments, the remainingBytes plus the length of the first call
\* (the 32-bit size the first call announces), and whether every call's
\* remainingBytes plus the lengths up to and including it gave that size
JoinFragment(fs, call) ==
    IF fs # <<>> /\ fs[Len(fs)].remaining # U32Zero
    THEN [fs EXCEPT ![Len(fs)] =
            [opCode |-> @.opCode, fin |-> @.fin, data |-> @.data \o call.data,
             remaining |-> call.remaining,
             same |-> @.same /\ call.opCode = @.opCode /\ call.fin = @.fin,
             top |-> @.top /\ call.opCode = OpCodeAtCall(call),
             sum |-> @.sum + U64Val(call.len),
             total |-> @.total,
             exact |-> @.exact
                       /\ U32Add(call.remaining, @.sum + U64Val(call.len)) = @.total]]
    ELSE Append(fs, [opCode |-> call.opCode, fin |-> call.fin, data |-> call.data,
                     remaining |-> call.remaining, same |-> TRUE,
                     top |-> call.opCode = OpCodeAtCall(call),
                     sum |-> U64Val(call.len),
                     total |-> U32Add(call.remaining, U64Val(call.len)),
                     exact |-> TRUE])

RECURSIVE JoinCalls(_, _)
JoinCalls(fs, cs) ==
    IF cs = <<>> THEN fs
    ELSE JoinCalls(IF cs[1].cb = "handleFragment" THEN JoinFragment(fs, cs[1]) ELSE fs,
                   Tail(cs))

\* a callback after which the parser has to stop: forceClose, or handleFragment
\* returning true; and the point where the behaviour has become undefined
EndsParsing(e) ==
    e.cb = "forceClose" \/ (e.cb = "handleFragment" /\ e.ret) \/ e.cb = "beyondBuffer"

\* the callbacks cs from the first one that ends parsing on
RECURSIVE FromEnd(_)
FromEnd(cs) ==
    IF cs = <<>> THEN <<>>
    ELSE IF EndsParsing(cs[1])
         THEN [i \in 1..Len(cs) |->
                  [cb |-> cs[i].cb, reason |-> cs[i].reason, opCode |-> cs[i].opCode,
                   fin |-> cs[i].fin, ret |-> cs[i].ret, at |-> cs[i].at]]
         ELSE FromEnd(Tail(cs))

\* the connection after a consume call that made the callbacks cs
ClosedBy(cs) ==
    IF \E i \in 1..Len(cs) : cs[i].cb = "beyondBuffer" THEN "undefined"
    ELSE IF \E i \in 1..Len(cs) : cs[i].cb = "forceClose" THEN "forceClosed"
    ELSE IF \E i \in 1..Len(cs) : cs[i].cb = "handleFragment" /\ cs[i].ret
         THEN "handlerStopped"
         ELSE "open"

(***************************************************************************)
(* The framer and the close payload.                                       *)
(***************************************************************************)
UINT16_MAX == 65535
SND_COMPRESSED == 64

\* messageFrameSize that counts a two-byte length field for every size
messageFrameSizeShort(messageSize) == 2 + messageSize

messageFrameSize(messageSize) ==
    IF messageSize < 126 THEN 2 + messageSize
    ELSE IF messageSize <= UINT16_MAX THEN 4 + messageSize
    ELSE 10 + messageSize

\* the framer that sets the compressed bit whenever compressed is asked for and
\* never the FIN bit
formatMessageUnfinished(srv, src, opCode, reportedLength, compressed, fin, random) ==
    [dst |-> <<(IF compressed THEN SND_COMPRESSED ELSE 0) + opCode,
               (IF srv THEN 0 ELSE 128) + reportedLength>>
             \o (IF srv THEN <<>> ELSE random)
             \o [i \in 1..Len(src) |-> IF srv THEN src[i]
                                       ELSE Xor(src[i], random[((i - 1) % 4) + 1])],
     ret |-> (IF srv THEN 2 ELSE 6) + Len(src)]

\* formatMessage<srv>(dst, src, Len(src), opCode, reportedLength, compressed,
\* fin) for reportedLength < 2^31, random being the four bytes rand() gives:
\* the bytes written to dst and the value returned
formatMessage(srv, src, opCode, reportedLength, compressed, fin, random) ==
    LET headerLength == IF reportedLength < 126 THEN 2
                        ELSE IF reportedLength <= UINT16_MAX THEN 4
                        ELSE 10
        lengthField ==
            IF reportedLength < 126 THEN <<reportedLength>>
            ELSE IF reportedLength <= UINT16_MAX
            THEN <<126, (reportedLength \div 256) % 256, reportedLength % 256>>
            ELSE <<127, 0, 0, 0, 0,
                   (reportedLength \div 16777216) % 256, (reportedLength \div 65536) % 256,
                   (reportedLength \div 256) % 256, reportedLength % 256>>
        b0 == (IF fin THEN 128 ELSE 0)
              + (IF compressed /\ opCode # 0 THEN SND_COMPRESSED ELSE 0)
              + opCode
        masked == [i \in 1..Len(src) |-> Xor(src[i], random[((i - 1) % 4) + 1])]
    IN  [dst |-> <<b0>>
                 \o (IF srv THEN lengthField
                     ELSE <<lengthField[1] + 128>> \o Tail(lengthField))
                 \o (IF srv THEN <<>> ELSE random)
                 \o (IF srv THEN src ELSE masked),
         ret |-> headerLength + (IF srv THEN 0 ELSE 4) + Len(src)]

\* the position of the first byte of s from i on with the high bit set, Len(s) + 1
\* when there is none: the loop while (!(*s & 0x80))
RECURSIVE SkipAscii(_, _)
SkipAscii(s, i) ==
    IF i > Len(s) THEN i
    ELSE IF s[i] >= 128 THEN i
    ELSE SkipAscii(s, i + 1)

\* the validator that takes every byte above 0x7f for the start of a two-byte
\* sequence
RECURSIVE isValidUtf8OfPairs(_, _)
isValidUtf8OfPairs(s, i) ==
    LET k == SkipAscii(s, i)
    IN  IF k > Len(s) THEN TRUE
        ELSE IF k + 1 > Len(s) THEN FALSE
        ELSE isValidUtf8OfPairs(s, k + 2)

\* isValidUtf8 with the pointer s at index i of the bytes; e is Len(s) + 1
RECURSIVE isValidUtf8From(_, _)
isValidUtf8From(s, i) ==
    LET e == Len(s) + 1
    IN  IF i = e THEN TRUE
        ELSE IF i + 16 <= e /\ \A j \in i..(i + 15) : s[j] < 128
        THEN isValidUtf8From(s, i + 16)
        ELSE LET k == SkipAscii(s, i)
             IN  IF k = e THEN TRUE
                 ELSE IF (s[k] \div 32) % 4 = 2
                 THEN IF \/ k + 1 >= e
                         \/ s[k + 1] \div 64 # 2
                         \/ s[k] \div 2 = 96
                      THEN FALSE
                      ELSE isValidUtf8From(s, k + 2)
                 ELSE IF s[k] \div 16 = 14
                 THEN IF \/ k + 2 >= e
                         \/ s[k + 1] \div 64 # 2
                         \/ s[k + 2] \div 64 # 2
                         \/ (s[k] = 224 /\ s[k + 1] \div 32 = 4)
                         \/ (s[k] = 237 /\ s[k + 1] \div 32 = 5)
                      THEN FALSE
                      ELSE isValidUtf8From(s, k + 3)
                 ELSE IF s[k] \div 8 = 30
                 THEN IF \/ k + 3 >= e
                         \/ s[k + 1] \div 64 # 2
                         \/ s[k + 2] \div 64 # 2
                         \/ s[k + 3] \div 64 # 2
                         \/ (s[k] = 240 /\ s[k + 1] \div 16 = 8)
                         \/ (s[k] = 244 /\ s[k + 1] > 143)
                         \/ s[k] > 244
                      THEN FALSE
                      ELSE isValidUtf8From(s, k + 4)
                 ELSE FALSE

isValidUtf8(s) == isValidUtf8From(s, 1)

\* "Received invalid close payload"
ERR_INVALID_CLOSE_PAYLOAD ==
    <<82, 101, 99, 101, 105, 118, 101, 100, 32, 105, 110, 118, 97, 108, 105, 100, 32,
      99, 108, 111, 115, 101, 32, 112, 97, 121, 108, 111, 97, 100>>

\* parseClosePayload that looks at the code only
parseClosePayloadUnvalidated(src) ==
    IF Len(src) >= 2
    THEN LET code == src[1] * 256 + src[2]
         IN  IF \/ code < 1000
                \/ code > 4999
                \/ (code > 1011 /\ code < 4000)
                \/ (code >= 1004 /\ code <= 1006)
             THEN [code |-> 1006, message |-> ERR_INVALID_CLOSE_PAYLOAD,
                   length |-> Len(ERR_INVALID_CLOSE_PAYLOAD)]
             ELSE [code |-> code, message |-> SubSeq(src, 3, Len(src)),
                   length |-> Len(src) - 2]
    ELSE [code |-> 1005, message |-> <<>>, length |-> 0]

\* parseClosePayload(src, Len(src)): the CloseFrame returned, its message as the
\* length bytes message points to (none for nullptr)
parseClosePayload(src) ==
    IF Len(src) >= 2
    THEN LET code == src[1] * 256 + src[2]
             message == SubSeq(src, 3, Len(src))
         IN  IF \/ code < 1000
                \/ code > 4999
                \/ (code > 1011 /\ code < 4000)
                \/ (code >= 1004 /\ code <= 1006)
                \/ ~isValidUtf8(message)
             THEN [code |-> 1006, message |-> ERR_INVALID_CLOSE_PAYLOAD,
                   length |-> Len(ERR_INVALID_CLOSE_PAYLOAD)]
             ELSE [code |-> code, message |-> message, length |-> Len(src) - 2]
    ELSE [code |-> 1005, message |-> <<>>, length |-> 0]

\* dst with the bytes bs written at its start
WriteAtStart(dst, bs) == [i \in 1..Len(dst) |-> IF i <= Len(bs) THEN bs[i] ELSE dst[i]]

\* a pointer to bytes is <<the bytes behind it>>, and nullptr is <<>>
nullptr == <<>>

\* formatClosePayload that writes the code with the low byte first
formatClosePayloadLittleEndian(dst, code, message, length) ==
    IF code # 0 /\ code # 1005 /\ code # 1006
    THEN [dst |-> WriteAtStart(dst, <<code % 256, code \div 256>>
                                    \o (IF message # nullptr
                                        THEN SubSeq(message[1], 1, length) ELSE <<>>)),
          ret |-> length + 2]
    ELSE [dst |-> dst, ret |-> 0]

\* formatClosePayload that writes whatever the code is
formatClosePayloadOfAnyCode(dst, code, message, length) ==
    [dst |-> WriteAtStart(dst, <<code \div 256, code % 256>>
                               \o (IF message # nullptr
                                   THEN SubSeq(message[1], 1, length) ELSE <<>>)),
     ret |-> length + 2]

\* formatClosePayload(dst, code, message, length): dst as it is left, and the
\* value returned
formatClosePayload(dst, code, message, length) ==
    IF code # 0 /\ code # 1005 /\ code # 1006
    THEN [dst |-> WriteAtStart(dst, <<code \div 256, code % 256>>
                                    \o (IF message # nullptr
                                        THEN SubSeq(message[1], 1, length) ELSE <<>>)),
          ret |-> length + 2]
    ELSE [dst |-> dst, ret |-> 0]

(***************************************************************************)
(* Inbound streams.  A frame is written as the peer frames it: first byte, *)
(* length field in one of its three forms, the masking key when the        *)
(* receiver is a server, and the payload XORed with the key.               *)
(***************************************************************************)
Forms == {"short", "medium", "long"}

\* the masking keys of generated frames (the first is the key of the spec's
\* masked "Hello")
Keys == {<<55, 250, 33, 61>>, <<0, 0, 0, 0>>}

\* the bytes of generated payloads: "A", "B", ...
PayloadBytes(n) == [i \in 1..n |-> 64 + i]

MaskPayload(payload, key) ==
    [i \in 1..Len(payload) |-> Xor(payload[i], key[((i - 1) % 4) + 1])]

\* declared is the 64-bit payload length the header states, payload the payload
\* bytes that follow on the wire
EncodeFrame(srv, b0, form, declared, key, payload) ==
    <<b0>>
    \o (IF form = "short" THEN <<(IF srv THEN 128 ELSE 0) + declared[1]>>
        ELSE IF form = "medium"
        THEN <<(IF srv THEN 128 ELSE 0) + 126, declared[1] \div 256, declared[1] % 256>>
        ELSE <<(IF srv THEN 128 ELSE 0) + 127,
               declared[4] \div 256, declared[4] % 256,
               declared[3] \div 256, declared[3] % 256,
               declared[2] \div 256, declared[2] % 256,
               declared[1] \div 256, declared[1] % 256>>)
    \o (IF srv THEN key ELSE <<>>)
    \o (IF srv THEN MaskPayload(payload, key) ELSE payload)

Scenario(srv, compressed, limit, stops, w) ==
    [isServer |-> srv, compressedOk |-> compressed, maxPayload |-> limit,
     mayStop |-> stops, wire |-> w]

\* one Binary frame in each header form with each payload length, and an empty
\* Ping behind it; on a server with a key of four different bytes and, for the
\* short form, with the key 0 as well
ChunkStreams ==
    { Scenario(x[1], TRUE, -1, 2,
               EncodeFrame(x[1], 130, x[2], U64OfSmall(n), x[3], PayloadBytes(n))
               \o EncodeFrame(x[1], 137, "short", U64OfSmall(0), x[3], <<>>)) :
        x \in { y \in BOOLEAN \X Forms \X Keys :
                  y[3] = <<55, 250, 33, 61>> \/ (y[1] /\ y[2] = "short") },
        n \in 0..MaxPayload }

\* the first bytes of the frames of the fragmentation family: Continuation with
\* FIN 0 and 1, Text with FIN 0, Binary with FIN 0 and 1, and Ping
FragFirstBytes == {0, 128, 1, 2, 130, 137}

RECURSIVE EncodeFrag(_, _)
EncodeFrag(fs, k) ==
    IF fs = <<>> THEN <<>>
    ELSE (IF getOpCode(fs[1]) > 2
          THEN EncodeFrame(FALSE, fs[1], "short", U64OfSmall(0), <<0, 0, 0, 0>>, <<>>)
          ELSE EncodeFrame(FALSE, fs[1], "short", U64OfSmall(1), <<0, 0, 0, 0>>, <<64 + k>>))
         \o EncodeFrag(Tail(fs), k + 1)

\* the parser of a client closes the connection on the frames fs
Rejected(fs) ==
    ClosedBy(consume(FALSE, TRUE, -1, InitState(FALSE), EncodeFrag(fs, 1), 0).calls) # "open"

\* the sequences of up to n frames that end with the first frame the parser
\* rejects, or have n frames
RECURSIVE FrameSeqs(_)
FrameSeqs(n) ==
    IF n = 0 THEN {<<>>}
    ELSE LET shorter == FrameSeqs(n - 1)
         IN  {fs \in shorter : Rejected(fs)}
             \cup {Append(fs, b) : fs \in {g \in shorter : ~Rejected(g)},
                                   b \in FragFirstBytes}

\* client streams of MaxFrames short frames
FragStreams ==
    { Scenario(FALSE, TRUE, -1, 0, EncodeFrag(fs, 1)) : fs \in FrameSeqs(MaxFrames) }

\* first bytes with every FIN, each reserved bit alone, and opcodes of every kind
HeaderFirstBytes ==
    { fin + rsv + op : fin \in {0, 128}, rsv \in {0, 16, 32, 64},
                       op \in {0, 1, 2, 3, 7, 8, 9, 10, 11, 15} }

\* the 7-bit length fields at the edges of the three header forms, with the
\* form and the declared length of each
HeaderLengths ==
    { <<"short", 0>>, <<"short", 125>>, <<"medium", 126>>, <<"long", 127>> }

\* one frame header of each kind with at most one payload byte behind it, on a
\* server, on a client, and on a client in the middle of a fragmented message
HeaderStreams ==
    { Scenario(p[1], h[2], -1, 0,
               p[2] \o EncodeFrame(p[1], h[1], l[1], U64OfSmall(l[2]), <<55, 250, 33, 61>>,
                                   PayloadBytes(IF l[2] = 0 THEN 0 ELSE 1))) :
        p \in { <<TRUE, <<>> >>, <<FALSE, <<>> >>, <<FALSE, <<1, 1, 65>> >> },
        h \in { x \in HeaderFirstBytes \X BOOLEAN : rsv1(x[1]) \/ x[2] },
        l \in HeaderLengths }

\* the byte streams of the specification's scenarios: the masked "Hello" on a
\* server, the fragmented "Hello" and the interleaved Ping on a client
ScenarioStreams ==
    { Scenario(TRUE, TRUE, -1, 1, <<129, 133, 55, 250, 33, 61, 127, 159, 77, 81, 88>>),
      Scenario(FALSE, TRUE, -1, 2, <<1, 3, 72, 101, 108, 128, 2, 108, 111>>),
      Scenario(FALSE, TRUE, -1, 3, <<1, 1, 65, 137, 0, 128, 1, 66>>) }

\* a Binary frame of each payload length around PayloadLimit, and an empty Ping
\* behind it, to a handler that refuses payloads above PayloadLimit; and a
\* Binary frame of PayloadLimit + 1 bytes with a medium and a long header behind
\* an empty Ping
LimitStreams ==
    { Scenario(srv, TRUE, PayloadLimit, 0,
               EncodeFrame(srv, 130, "short", U64OfSmall(n), <<55, 250, 33, 61>>,
                           PayloadBytes(n))
               \o EncodeFrame(srv, 137, "short", U64OfSmall(0), <<55, 250, 33, 61>>, <<>>)) :
        srv \in BOOLEAN, n \in (PayloadLimit - 1)..(PayloadLimit + 2) }
    \cup
    { Scenario(srv, TRUE, PayloadLimit, 0,
               EncodeFrame(srv, 137, "short", U64OfSmall(0), <<55, 250, 33, 61>>, <<>>)
               \o EncodeFrame(srv, 130, form, U64OfSmall(PayloadLimit + 1),
                              <<55, 250, 33, 61>>, PayloadBytes(PayloadLimit + 1))) :
        srv \in BOOLEAN, form \in {"medium", "long"} }

\* a Binary frame whose long header declares 2^32 + d bytes, of which the first
\* HugePresent have arrived
HugeStreams ==
    { Scenario(srv, TRUE, -1, 0,
               EncodeFrame(srv, 130, "long", <<d, 0, 1, 0>>, <<55, 250, 33, 61>>,
                           PayloadBytes(HugePresent))) :
        srv \in BOOLEAN, d \in 0..HugePresent }

\* a Binary frame whose long header declares 2^64 - k bytes, for the k around
\* the size of the header, with none and with some payload bytes behind it
WrapStreams ==
    { Scenario(srv, TRUE, -1, 0,
               EncodeFrame(srv, 130, "long", <<Word - k, Word - 1, Word - 1, Word - 1>>,
                           <<55, 250, 33, 61>>, PayloadBytes(p))) :
        srv \in BOOLEAN, k \in {1, 10, 11, 14, 15}, p \in {0, HugePresent} }

\* frames to a server with the MASK bit of the second byte clear: a Text frame
\* "A" with four bytes where the key would be, and the Text frame "Hello" with
\* an empty Ping behind it as a server frames them
UnmaskedStreams ==
    { Scenario(TRUE, TRUE, -1, 0, <<129, 1, 55, 250, 33, 61, 118>>),
      Scenario(TRUE, TRUE, -1, 0,
               EncodeFrame(FALSE, 129, "short", U64OfSmall(5), <<0, 0, 0, 0>>,
                           <<72, 101, 108, 108, 111>>)
               \o EncodeFrame(FALSE, 137, "short", U64OfSmall(0), <<0, 0, 0, 0>>, <<>>)) }

Streams ==
    ChunkStreams \cup FragStreams \cup HeaderStreams \cup ScenarioStreams
        \cup LimitStreams \cup HugeStreams \cup WrapStreams \cup UnmaskedStreams

(***************************************************************************)
(* any_invocable_impl.  An object is its three members: handle_ and call_  *)
(* name the handler ("small" or "large") they point into, storage_ is what *)
(* the union holds.                                                        *)
(***************************************************************************)
\* storage: ptr_ = nullptr
NullStorage == [kind |-> "nullptr", id |-> 0]

\* the buffer after the destructor of the T that was in it
DestroyedStorage == [kind |-> "destroyed", id |-> 0]

\* handler<T>: small_handler for a T that fits the buffer, else large_handler
handler(f) == f.size

\* hdl::create: the T in buf_, or ptr_ to a new T
HandlerCreate(f) == [kind |-> handler(f), id |-> f.id]

\* hdl::destroy: small_handler runs the destructor; large_handler deletes,
\* ptr_ keeps its value and points to nothing
HandlerDestroy(h, s) ==
    IF h = "small" THEN DestroyedStorage ELSE [kind |-> "deleted", id |-> s.id]

\* hdl::move(dst, src): small_handler creates in dst from the T in src and
\* destroys src; large_handler copies ptr_
HandlerMove(h, dst, src) ==
    IF h = "small" THEN [dst |-> src, src |-> DestroyedStorage]
    ELSE [dst |-> src, src |-> src]

\* an object that is not constructed
NoObject ==
    [alive |-> FALSE, handle_ |-> "nullptr", call_ |-> "unset", storage_ |-> NullStorage]

\* any_invocable_impl() and any_invocable_impl(std::nullptr_t); call_ has no
\* initializer
DefaultConstructed ==
    [alive |-> TRUE, handle_ |-> "nullptr", call_ |-> "unset", storage_ |-> NullStorage]

\* create<F>(args...) on a default-constructed object
create(f) ==
    [alive |-> TRUE, handle_ |-> handler(f), call_ |-> handler(f),
     storage_ |-> HandlerCreate(f)]

\* destroy() that leaves handle_ as it is
destroyKeepingHandle(o) ==
    IF o.handle_ # "nullptr"
    THEN [o EXCEPT !.storage_ = HandlerDestroy(o.handle_, o.storage_)]
    ELSE o

\* void destroy()
destroy(o) ==
    IF o.handle_ # "nullptr"
    THEN [o EXCEPT !.storage_ = HandlerDestroy(o.handle_, o.storage_),
                   !.handle_ = "nullptr"]
    ELSE o

\* the move constructor that leaves rhs.handle_ as it is
MoveConstructorKeepingHandle(rhs) ==
    IF rhs.handle_ # "nullptr"
    THEN [this |-> [DefaultConstructed EXCEPT !.handle_ = rhs.handle_,
                                              !.storage_ = rhs.storage_,
                                              !.call_ = rhs.call_],
          rhs |-> rhs]
    ELSE [this |-> DefaultConstructed, rhs |-> rhs]

\* any_invocable_impl(any_invocable_impl&& rhs): the new object and rhs after
MoveConstructor(rhs) ==
    IF rhs.handle_ # "nullptr"
    THEN LET m == HandlerMove(rhs.handle_, NullStorage, rhs.storage_)
         IN  [this |-> [DefaultConstructed EXCEPT !.handle_ = rhs.handle_,
                                                  !.storage_ = m.dst,
                                                  !.call_ = rhs.call_],
              rhs |-> [rhs EXCEPT !.storage_ = m.src, !.handle_ = "nullptr"]]
    ELSE [this |-> DefaultConstructed, rhs |-> rhs]

\* swap, the branch else if (rhs.handle_): this is empty
SwapIntoEmpty(this, rhs) ==
    IF rhs.handle_ # "nullptr"
    THEN LET m == HandlerMove(rhs.handle_, this.storage_, rhs.storage_)
         IN  [this |-> [this EXCEPT !.storage_ = m.dst, !.handle_ = rhs.handle_,
                                    !.call_ = rhs.call_],
              rhs |-> [rhs EXCEPT !.storage_ = m.src, !.handle_ = "nullptr"]]
    ELSE [this |-> this, rhs |-> rhs]

\* void swap(any_invocable_impl& rhs): this and rhs after
swap(this, rhs) ==
    IF this.handle_ # "nullptr"
    THEN IF rhs.handle_ # "nullptr"
         THEN LET m1 == HandlerMove(this.handle_, NullStorage, this.storage_)
                  m2 == HandlerMove(rhs.handle_, m1.src, rhs.storage_)
                  m3 == HandlerMove(this.handle_, m2.src, m1.dst)
              IN  [this |-> [this EXCEPT !.storage_ = m2.dst, !.handle_ = rhs.handle_,
                                         !.call_ = rhs.call_],
                   rhs |-> [rhs EXCEPT !.storage_ = m3.dst, !.handle_ = this.handle_,
                                       !.call_ = this.call_]]
         ELSE LET r == SwapIntoEmpty(rhs, this)
              IN  [this |-> r.rhs, rhs |-> r.this]
    ELSE SwapIntoEmpty(this, rhs)

\* explicit operator bool()
OperatorBool(o) == o.handle_ # "nullptr"

\* operator==(f, nullptr) and operator==(nullptr, f)
EqualsNullptr(o) == ~OperatorBool(o)

(***************************************************************************)
(* The connection.                                                         *)
(***************************************************************************)
\* the connection applies nothing but consume
NoArgs == [fn |-> "consume"]

\* the names of the any_invocable objects of a program
Names == {"A", "B", "C"}

\* no object is constructed and nothing was done
NoObjects == [n \in Names |-> NoObject]
NoCall == [op |-> "none", this |-> "", rhs |-> "", f |-> <<>>, before |-> NoObjects]

\* the callables a program wraps: some fit the buffer of two pointers, some
\* do not
Callables == { [size |-> s, id |-> i] : s \in {"small", "large"}, i \in 1..NumCallables }

\* no callable has been wrapped
NoLifetimes == [f \in Callables |-> "none"]

Init ==
    \E s \in Streams :
        /\ isServer = s.isServer
        /\ compressedOk = s.compressedOk
        /\ maxPayload = s.maxPayload
        /\ mayStop = s.mayStop
        /\ wire = s.wire
        /\ pos = 0
        /\ ws = InitState(s.isServer)
        /\ frags = <<>>
        /\ term = <<>>
        /\ closed = "open"
        /\ rest = 0
        /\ compressedCalls = 0
        /\ args = NoArgs
        /\ result = <<>>
        /\ objects = NoObjects
        /\ last = NoCall
        /\ lifetime = NoLifetimes

\* consume on the next n bytes of the stream, the handler returning true on
\* handleFragment call number stop of it (0: on none)
ConsumeNext(n, stop) ==
    consume(isServer, compressedOk, maxPayload, ws, SubSeq(wire, pos + 1, pos + n), stop)

\* what becomes of the connection after the consume call r: after an access
\* beyond the buffer the process has been stopped by it, or goes on with memory
\* and parser in a state the code does not determine, or, where the handler
\* left the bytes beyond the buffer alone and the loop comes back to the same
\* header, consume never returns
Outcomes(r) ==
    IF ClosedBy(r.calls) = "undefined"
    THEN {"crashed", "corrupted"} \cup (IF r.again THEN {"hung"} ELSE {})
    ELSE {ClosedBy(r.calls)}

\* the transport hands the next n bytes of the stream to consume; the handler
\* may return true on any one of the first mayStop handleFragment calls
Feed(n) ==
    /\ closed = "open"
    /\ \E stop \in 0..mayStop :
          \E r \in {ConsumeNext(n, stop)} :
              /\ stop = 0 \/ r.nfrag >= stop
              /\ ws' = r.ws
              /\ frags' = JoinCalls(frags, r.calls)
              /\ term' = FromEnd(r.calls)
              /\ closed' \in Outcomes(r)
              /\ rest' = r.rest
              /\ \E made \in {Cardinality({ i \in 1..Len(r.calls) :
                                                 r.calls[i].cb = "setCompressed" })} :
                    compressedCalls' =
                        IF compressedCalls + made > MaxCompressedCalls
                        THEN MaxCompressedCalls
                        ELSE compressedCalls + made
              /\ pos' = IF ClosedBy(r.calls) = "open" THEN pos + n ELSE Len(wire)
    /\ UNCHANGED <<isServer, compressedOk, maxPayload, mayStop, wire, args, result,
                   objects, last, lifetime>>

Next == \E n \in 0..(Len(wire) - pos) : Feed(n)

Spec == Init /\ [][Next]_vars

(***************************************************************************)
(* The framer and the close payload functions, applied to arguments taken  *)
(* from bounded sets.                                                      *)
(***************************************************************************)
SeqsUpTo(S, n) == UNION { [1..k -> S] : k \in 0..n }

\* the opcodes a caller may pass to formatMessage
OpCodes == {CONTINUATION, TEXT, BINARY, CLOSE, PING, PONG}

\* payload lengths at the edges of the three forms of the length field
FrameLengths == {0, 1, 125, 126, 127, 65535, 65536}

\* n payload bytes
FramePayload(n) == [i \in 1..n |-> i % 251]

\* formatMessage<srv> with reportedLength = length: every opcode and flag with
\* the lengths of the short and the medium form, Binary with all of them
FormatCalls ==
    { [fn |-> "formatMessage", srv |-> x[1], opCode |-> x[2], fin |-> x[3],
       compressed |-> x[4], length |-> x[5], random |-> x[6]] :
        x \in { y \in BOOLEAN \X OpCodes \X BOOLEAN \X BOOLEAN \X FrameLengths \X Keys :
                  /\ y[1] => y[6] = <<0, 0, 0, 0>>
                  /\ y[5] > 127 => y[2] = BINARY /\ y[3] /\ ~y[4] } }

\* a message framed by the peer of a parser with role srv (formatMessage<!srv>)
\* and handed to consume in the initial state, setCompressed answering true
RoundTripCalls ==
    { [fn |-> "roundTrip", srv |-> x[1], opCode |-> x[2], fin |-> x[3],
       compressed |-> x[4], payload |-> PayloadBytes(x[5]), random |-> x[6]] :
        x \in { y \in BOOLEAN \X OpCodes \X BOOLEAN \X BOOLEAN
                        \X {0, 1, MaxPayload, 125, 126} \X Keys :
                  ~y[1] => y[6] = <<0, 0, 0, 0>> } }

\* bytes of the classes the validator tells apart: ASCII, continuation bytes
\* at the edges 80, 8F, 90, A0, BF, and the lead bytes C1, C2, E0, ED, F0, F4
ReasonBytes == {36, 128, 143, 144, 160, 191, 193, 194, 224, 237, 240, 244}

Ascii16 == [i \in 1..16 |-> 96 + i]

\* reasons of up to MaxReason bytes, four-byte sequences, and reasons of 16
\* bytes and more
Reasons ==
    SeqsUpTo(ReasonBytes, MaxReason)
    \cup { <<240, 144, 128, 128>>, <<240, 143, 191, 191>>, <<244, 143, 191, 191>>,
           <<244, 144, 128, 128>>, <<245, 128, 128, 128>>, <<241, 128, 128, 36>>,
           <<243, 191, 191, 191>>, <<239, 191, 191, 36>>, <<237, 159, 191, 36>> }
    \cup { Ascii16 \o t : t \in SeqsUpTo({36, 128, 194}, 2) }
    \cup { SubSeq(Ascii16, 1, 15) \o t : t \in SeqsUpTo({36, 128, 194}, 2) }
    \cup { <<194, 128>> \o Ascii16 \o Ascii16 \o t : t \in SeqsUpTo({36, 128, 194}, 2) }

\* close codes at the edges of the ranges parseClosePayload tells apart
CloseCodes ==
    {0, 999, 1000, 1003, 1004, 1005, 1006, 1007, 1011, 1012, 2999, 3000, 3999, 4000,
     4999, 5000, 65535}

CodeBytes(code) == <<code \div 256, code % 256>>

\* payloads of close frames: shorter than a code, every code with a few
\* reasons, and the code 1000 with every reason
ParseCloseCalls ==
    { [fn |-> "parseClosePayload", src |-> b] :
        b \in { <<>>, <<3>>, <<236>> }
               \cup { CodeBytes(c) \o r : c \in CloseCodes,
                                          r \in { <<>>, <<36>>, <<128>>, <<194, 128>> } }
               \cup { CodeBytes(1000) \o r : r \in Reasons } }

\* formatClosePayload and parseClosePayload on what it wrote
CloseRoundTripCalls ==
    { [fn |-> "closeRoundTrip", code |-> x[1], reason |-> x[2]] :
        x \in (CloseCodes \X { <<>>, <<36>>, <<128>>, <<194, 128>> })
               \cup ({1000, 4999} \X Reasons) }

\* what dst holds before formatClosePayload is called: n bytes 0xAA
DstBefore(n) == [i \in 1..n |-> 170]

\* formatClosePayload with every code, with nullptr and with messages of up to
\* three bytes, and every length up to that of the message (up to 2 for nullptr)
FormatCloseCalls ==
    { [fn |-> "formatClosePayload", code |-> x[1], message |-> x[2], length |-> x[3]] :
        x \in { y \in CloseCodes \X { nullptr, << <<>> >>, << <<36>> >>, << <<72, 105, 33>> >> }
                        \X (0..3) :
                  y[3] <= (IF y[2] = nullptr THEN 2 ELSE Len(y[2][1])) } }

\* bytes at the edges of every range isValidUtf8 tests
Utf8Bytes ==
    {0, 36, 127, 128, 143, 144, 159, 160, 191, 192, 193, 194, 223, 224, 237, 239, 240,
     244, 245, 255}

\* three- and four-byte sequences with the second byte at the edges of the
\* ranges that depend on the lead byte, whole and cut off by the end
Utf8Sequences ==
    { <<x[1], x[2], x[3]>> :
        x \in {224, 225, 236, 237, 238, 239} \X {127, 128, 159, 160, 191, 192}
                \X {127, 128, 191, 192} }
    \cup { <<x[1], x[2], x[3], x[4]>> :
        x \in {240, 241, 243, 244, 245, 247, 248} \X {127, 128, 143, 144, 191, 192}
                \X {128, 192} \X {36, 128, 191, 192} }
    \cup { <<x[1], x[2], 128>> :
        x \in {240, 241, 243, 244, 245} \X {128, 143, 144, 191} }

\* buffers for isValidUtf8: every combination of up to MaxUtf8 bytes, the
\* sequences, and buffers on which the test s + 16 <= e succeeds: 15, 16 and 32
\* ASCII bytes before and after a sequence, and 16 bytes with one above 0x7f
Utf8Buffers ==
    SeqsUpTo(Utf8Bytes, MaxUtf8)
    \cup Utf8Sequences
    \cup { a \o t \o b :
             a \in { <<>>, SubSeq(Ascii16, 1, 15), Ascii16, Ascii16 \o Ascii16 },
             t \in { <<>>, <<128>>, <<194>>, <<194, 128>>, <<224, 160>>, <<237, 160, 128>>,
                     <<226, 130, 172>>, <<240, 159, 152, 128>>, <<244, 144, 128, 128>> },
             b \in { <<>>, <<36>>, SubSeq(Ascii16, 1, 15), Ascii16 } }
    \cup { [Ascii16 EXCEPT ![j] = 200] \o t : j \in {1, 8, 16}, t \in { <<>>, <<128>>, <<36>> } }

Utf8Calls == { [fn |-> "isValidUtf8", s |-> b] : b \in Utf8Buffers }

CodecInit ==
    /\ args \in FormatCalls \cup RoundTripCalls \cup ParseCloseCalls \cup CloseRoundTripCalls
                \cup FormatCloseCalls \cup Utf8Calls
    /\ result = <<>>
    /\ isServer = FALSE
    /\ compressedOk = TRUE
    /\ maxPayload = -1
    /\ mayStop = 0
    /\ wire = <<>>
    /\ pos = 0
    /\ ws = InitState(FALSE)
    /\ frags = <<>>
    /\ term = <<>>
    /\ closed = "open"
    /\ rest = 0
    /\ compressedCalls = 0
    /\ objects = NoObjects
    /\ last = NoCall
    /\ lifetime = NoLifetimes

Connection ==
    <<isServer, compressedOk, maxPayload, mayStop, wire, pos, ws, frags, term, closed, rest,
      compressedCalls>>

Invocables == <<objects, last, lifetime>>

ApplyFormatMessage ==
    /\ args.fn = "formatMessage"
    /\ result = <<>>
    /\ result' = << formatMessage(args.srv, FramePayload(args.length), args.opCode,
                                  args.length, args.compressed, args.fin, args.random) >>
    /\ UNCHANGED <<args, Connection, Invocables>>

ApplyRoundTrip ==
    /\ args.fn = "roundTrip"
    /\ result = <<>>
    /\ LET framed == formatMessage(~args.srv, args.payload, args.opCode,
                                   Len(args.payload), args.compressed, args.fin,
                                   args.random)
           c == consume(args.srv, TRUE, -1, InitState(args.srv), framed.dst, 0)
       IN  result' = << [framed |-> framed, calls |-> c.calls, ws |-> c.ws] >>
    /\ UNCHANGED <<args, Connection, Invocables>>

ApplyParseClosePayload ==
    /\ args.fn = "parseClosePayload"
    /\ result = <<>>
    /\ result' = << parseClosePayload(args.src) >>
    /\ UNCHANGED <<args, Connection, Invocables>>

\* dst has two bytes more than the call is to write
ApplyFormatClosePayload ==
    /\ args.fn = "formatClosePayload"
    /\ result = <<>>
    /\ result' = << formatClosePayload(DstBefore(args.length + 4), args.code,
                                       args.message, args.length) >>
    /\ UNCHANGED <<args, Connection, Invocables>>

ApplyCloseRoundTrip ==
    /\ args.fn = "closeRoundTrip"
    /\ result = <<>>
    /\ \E framed \in { formatClosePayload(DstBefore(Len(args.reason) + 2), args.code,
                                           <<args.reason>>, Len(args.reason)) } :
          result' = << [framed |-> framed,
                        parsed |-> parseClosePayload(SubSeq(framed.dst, 1, framed.ret))] >>
    /\ UNCHANGED <<args, Connection, Invocables>>

ApplyIsValidUtf8 ==
    /\ args.fn = "isValidUtf8"
    /\ result = <<>>
    /\ result' = << isValidUtf8(args.s) >>
    /\ UNCHANGED <<args, Connection, Invocables>>

CodecNext ==
    \/ ApplyFormatMessage
    \/ ApplyRoundTrip
    \/ ApplyParseClosePayload
    \/ ApplyCloseRoundTrip
    \/ ApplyFormatClosePayload
    \/ ApplyIsValidUtf8

CodecSpec == CodecInit /\ [][CodecNext]_vars

(***************************************************************************)
(* A program that constructs, moves, swaps, assigns and destroys           *)
(* any_invocable objects.                                                  *)
(***************************************************************************)
InvocableInit ==
    /\ objects = NoObjects
    /\ last = NoCall
    /\ lifetime = NoLifetimes
    /\ args = NoArgs
    /\ result = <<>>
    /\ isServer = FALSE
    /\ compressedOk = TRUE
    /\ maxPayload = -1
    /\ mayStop = 0
    /\ wire = <<>>
    /\ pos = 0
    /\ ws = InitState(FALSE)
    /\ frags = <<>>
    /\ term = <<>>
    /\ closed = "open"
    /\ rest = 0
    /\ compressedCalls = 0

\* f is the next callable of its size to wrap: every callable is wrapped once,
\* those of one size in the order of their id
Fresh(f) ==
    /\ lifetime[f] = "none"
    /\ \A g \in Callables : (g.size = f.size /\ g.id < f.id) => lifetime[g] # "none"

\* the lifetimes lt after create<F> has wrapped the callable f
AfterCreate(lt, f) == [lt EXCEPT ![f] = "live"]

\* the lifetimes lt after destroy() of the object o: with a handle_, the
\* destructor (small_handler) or delete (large_handler) runs on what storage_
\* holds or, for a ptr_ whose object was deleted, pointed to
\* (the T that small_handler::move leaves behind and destroys is not counted:
\* the callable lives on in the T created from it)
AfterDestroy(lt, o) ==
    IF o.handle_ # "nullptr" /\ o.storage_.kind \in {"small", "large", "deleted"}
    THEN LET f == [size |-> IF o.storage_.kind = "deleted" THEN "large"
                            ELSE o.storage_.kind,
                   id |-> o.storage_.id]
         IN  [lt EXCEPT ![f] = IF @ = "live" THEN "destroyed" ELSE "destroyedAgain"]
    ELSE lt

Called(op, this, rhs, f) ==
    /\ last' = [op |-> op, this |-> this, rhs |-> rhs, f |-> f, before |-> objects]
    /\ UNCHANGED <<args, result, Connection>>

\* any_invocable f; or any_invocable f(nullptr);
Construct(n) ==
    /\ ~objects[n].alive
    /\ objects' = [objects EXCEPT ![n] = DefaultConstructed]
    /\ UNCHANGED lifetime
    /\ Called("construct", n, "", <<>>)

\* any_invocable f(callable); of a callable that has not been wrapped yet
ConstructFrom(n, f) ==
    /\ ~objects[n].alive
    /\ Fresh(f)
    /\ objects' = [objects EXCEPT ![n] = create(f)]
    /\ lifetime' = AfterCreate(lifetime, f)
    /\ Called("constructFrom", n, "", <<f>>)

\* any_invocable n(std::move(r));
MoveConstruct(n, r) ==
    /\ ~objects[n].alive
    /\ objects[r].alive
    /\ \E m \in {MoveConstructor(objects[r])} :
          objects' = [objects EXCEPT ![n] = m.this, ![r] = m.rhs]
    /\ UNCHANGED lifetime
    /\ Called("moveConstruct", n, r, <<>>)

\* n = std::move(r); the temporary is destroyed at the end of the statement;
\* r may be n itself
MoveAssign(n, r) ==
    /\ objects[n].alive
    /\ objects[r].alive
    /\ \E m \in {MoveConstructor(objects[r])} :
          \E s \in {swap(m.this, [objects EXCEPT ![r] = m.rhs][n])} :
              /\ objects' = [objects EXCEPT ![r] = m.rhs, ![n] = s.rhs]
              /\ lifetime' = AfterDestroy(lifetime, s.this)
    /\ Called("moveAssign", n, r, <<>>)

\* n = nullptr;
AssignNullptr(n) ==
    /\ objects[n].alive
    /\ objects' = [objects EXCEPT ![n] = destroy(objects[n])]
    /\ lifetime' = AfterDestroy(lifetime, objects[n])
    /\ Called("assignNullptr", n, "", <<>>)

\* n = callable; of a callable that has not been wrapped yet; the temporary is
\* destroyed at the end of the statement
AssignFrom(n, f) ==
    /\ objects[n].alive
    /\ Fresh(f)
    /\ \E s \in {swap(create(f), objects[n])} :
          /\ objects' = [objects EXCEPT ![n] = s.rhs]
          /\ lifetime' = AfterDestroy(AfterCreate(lifetime, f), s.this)
    /\ Called("assignFrom", n, "", <<f>>)

\* n.swap(r); or swap(n, r); of two objects
Swap(n, r) ==
    /\ n # r
    /\ objects[n].alive
    /\ objects[r].alive
    /\ \E s \in {swap(objects[n], objects[r])} :
          objects' = [objects EXCEPT ![n] = s.this, ![r] = s.rhs]
    /\ UNCHANGED lifetime
    /\ Called("swap", n, r, <<>>)

\* the end of the lifetime of n: ~any_invocable_impl() { destroy(); }
Destruct(n) ==
    /\ objects[n].alive
    /\ objects' = [objects EXCEPT ![n] = NoObject]
    /\ lifetime' = AfterDestroy(lifetime, objects[n])
    /\ Called("destruct", n, "", <<>>)

InvocableNext ==
    \/ \E n \in Names : Construct(n)
    \/ \E n \in Names, f \in Callables : ConstructFrom(n, f)
    \/ \E n \in Names, r \in Names : MoveConstruct(n, r)
    \/ \E n \in Names, r \in Names : MoveAssign(n, r)
    \/ \E n \in Names : AssignNullptr(n)
    \/ \E n \in Names, f \in Callables : AssignFrom(n, f)
    \/ \E n \in Names, r \in Names : Swap(n, r)
    \/ \E n \in Names : Destruct(n)

InvocableSpec == InvocableInit /\ [][InvocableNext]_vars

(***************************************************************************)
(* The frames of the stream as the wire format defines them, for the       *)
(* statements below: where each frame starts, what its header says, and    *)
(* the payload bytes of it that are on the wire.                           *)
(***************************************************************************)
HeaderSize(srv, b1) ==
    IF payloadLength(b1) < 126 THEN SHORT_MESSAGE_HEADER(srv)
    ELSE IF payloadLength(b1) = 126 THEN MEDIUM_MESSAGE_HEADER(srv)
    ELSE LONG_MESSAGE_HEADER(srv)

DeclaredLength(w, k) ==
    IF payloadLength(w[k + 1]) < 126 THEN U64OfSmall(payloadLength(w[k + 1]))
    ELSE IF payloadLength(w[k + 1]) = 126 THEN U64OfBytes2(SubSeq(w, k + 2, k + 3))
    ELSE U64OfBytes8(SubSeq(w, k + 2, k + 9))

\* the frames of w from index k on whose header is whole
RECURSIVE WireFrames(_, _, _)
WireFrames(srv, w, k) ==
    IF Len(w) - k + 1 < 2 THEN <<>>
    ELSE IF Len(w) - k + 1 < HeaderSize(srv, w[k + 1]) THEN <<>>
    ELSE LET hs == HeaderSize(srv, w[k + 1])
             declared == DeclaredLength(w, k)
             avail == Len(w) - (k + hs) + 1
             whole == U64Le(declared, avail)
             n == IF whole THEN U64Val(declared) ELSE avail
         IN  << [start |-> k, b0 |-> w[k], b1 |-> w[k + 1], hdr |-> hs,
                 declared |-> declared, whole |-> whole,
                 key |-> IF srv THEN SubSeq(w, k + hs - 4, k + hs - 1) ELSE <<0, 0, 0, 0>>,
                 body |-> SubSeq(w, k + hs, k + hs + n - 1)] >>
             \o (IF whole THEN WireFrames(srv, w, k + hs + n) ELSE <<>>)

Frames == WireFrames(isServer, wire, 1)

\* the payload of frame f as the sender meant it: on-wire byte i XOR key[i mod 4]
Payload(f) == [i \in 1..Len(f.body) |-> Xor(f.body[i], f.key[((i - 1) % 4) + 1])]

\* the index of the first byte behind frame f
EndOf(f) == f.start + f.hdr + Len(f.body)

\* the parser after one consume call on the bytes in front of frame f
BoundaryCall(f) ==
    consume(isServer, compressedOk, maxPayload, InitState(isServer),
            SubSeq(wire, 1, f.start - 1), 0)

\* the whole stream has been handed over, or the connection is closed
AtEnd == pos = Len(wire)

IsPrefix(a, b) == Len(a) <= Len(b) /\ a = SubSeq(b, 1, Len(a))

\* opcode, FIN flag and payload of the joined calls fs
Delivered(fs) ==
    [j \in 1..Len(fs) |-> [opCode |-> fs[j].opCode, fin |-> fs[j].fin, data |-> fs[j].data]]

\* the calls of one consume call on the whole stream
WholeStream ==
    consume(isServer, compressedOk, maxPayload, InitState(isServer), wire, 0)

\* the connection was closed by force_close(reason)
ForceClosed(reason) ==
    /\ closed = "forceClosed"
    /\ term # <<>>
    /\ term[1].cb = "forceClose"
    /\ term[1].reason = reason

\* frame k of the stream was turned down: no handle_fragment call was made for
\* it, and once its header has been handed over the connection is closed
Rejects(k) ==
    /\ Len(frags) < k
    /\ (AtEnd /\ closed # "handlerStopped") => ForceClosed(ERR_PROTOCOL)

\* the parser reaches the start of frame f with the connection open
Reaches(f) == ClosedBy(BoundaryCall(f).calls) = "open"

IsData(f) == getOpCode(f.b0) \in {TEXT, BINARY}
IsControl(f) == getOpCode(f.b0) \in {CLOSE, PING, PONG}

(***************************************************************************)
(* C1: feeding the stream in any chunks yields, frame by frame and in the  *)
(* same order, the same opcode, FIN flag and concatenated payload in the   *)
(* handle_fragment calls as feeding it in one consume call, as long as no  *)
(* handler returns true.                                                   *)
(***************************************************************************)
C1_ChunkingEquivalence ==
    (AtEnd /\ closed # "handlerStopped")
        => Delivered(frags) = Delivered(JoinCalls(<<>>, WholeStream.calls))

(***************************************************************************)
(* C2: at a frame boundary where last_fin = false, a Text or Binary frame  *)
(* makes consume call force_close(ERR_PROTOCOL) and return without a       *)
(* handle_fragment call for that frame.                                    *)
(***************************************************************************)
C2_DataFrameRejectedAfterNonFinal ==
    \A k \in 1..Len(Frames) :
        (/\ IsData(Frames[k])
         /\ Reaches(Frames[k])
         /\ ~BoundaryCall(Frames[k]).ws.lastFin) => Rejects(k)

\* a Text or Binary frame with FIN = 0 in front of frame k that no Continuation
\* frame with FIN = 1 in front of frame k has completed
Unfinished(k) ==
    \E i \in 1..(k - 1) :
        /\ IsData(Frames[i]) /\ ~isFin(Frames[i].b0)
        /\ \A j \in (i + 1)..(k - 1) :
              ~(getOpCode(Frames[j].b0) = CONTINUATION /\ isFin(Frames[j].b0))

(***************************************************************************)
(* C3: while a fragmented data message is unfinished, a new Text or Binary *)
(* frame is rejected with force_close(ERR_PROTOCOL) also when a control    *)
(* frame was consumed between the unfinished fragment and the new frame.   *)
(***************************************************************************)
C3_DataFrameRejectedAfterControl ==
    \A k \in 2..Len(Frames) :
        (/\ IsData(Frames[k])
         /\ IsControl(Frames[k - 1])
         /\ Unfinished(k)
         /\ Reaches(Frames[k])) => Rejects(k)

(***************************************************************************)
(* C4: a Continuation frame that arrives while op_stack = -1 makes consume *)
(* call force_close(ERR_PROTOCOL) and return; no handle_fragment is called *)
(* for it and op_stack stays -1.                                           *)
(***************************************************************************)
C4_ContinuationRejectedWhenIdle ==
    \A k \in 1..Len(Frames) :
        (/\ getOpCode(Frames[k].b0) = CONTINUATION
         /\ Reaches(Frames[k])
         /\ BoundaryCall(Frames[k]).ws.opStack = -1)
            => /\ Rejects(k)
               /\ closed = "forceClosed" => ws.opStack = -1

\* a Binary frame was delivered whole, and the Continuation frame behind it
\* closed the connection
C4_Witness ==
    /\ Len(Frames) >= 2
    /\ Frames[1].b0 = 130
    /\ Frames[2].b0 = 128
    /\ Len(frags) = 1
    /\ ForceClosed(ERR_PROTOCOL)
    /\ ws.opStack = -1

\* what C5 lists as a header the parser turns down
ListedInvalid(f) ==
    \/ rsv23(f.b0)
    \/ getOpCode(f.b0) \in 3..7
    \/ getOpCode(f.b0) \in 11..15
    \/ rsv1(f.b0) /\ ~compressedOk
    \/ /\ IsControl(f)
       /\ ~isFin(f.b0) \/ payloadLength(f.b1) > 125

(***************************************************************************)
(* C5: a header with RSV2 or RSV3 set, an opcode in 3..7 or 11..15, RSV1   *)
(* set while set_compressed returns false, or a control opcode with FIN = 0 *)
(* or a length field above 125, makes consume call                         *)
(* force_close(ERR_PROTOCOL) and return without a handle_fragment call for *)
(* that frame.                                                             *)
(***************************************************************************)
C5_InvalidHeaderRejected ==
    \A k \in 1..Len(Frames) :
        (ListedInvalid(Frames[k]) /\ Reaches(Frames[k])) => Rejects(k)

\* the Ping header 89 7E whose length field is 126 closed the connection behind
\* an accepted Text fragment
C5_Witness ==
    /\ Len(Frames) = 2
    /\ Frames[2].b0 = 137
    /\ payloadLength(Frames[2].b1) = 126
    /\ Len(frags) = 1
    /\ ForceClosed(ERR_PROTOCOL)

\* frame k has been handed over to its last byte and the connection is open
Consumed(k) ==
    /\ k <= Len(Frames)
    /\ Frames[k].whole
    /\ closed = "open"
    /\ pos >= EndOf(Frames[k]) - 1

(***************************************************************************)
(* C6: on the server, byte i of the payload delivered for a frame,         *)
(* concatenated over the frame's calls, is on-wire payload byte i XOR      *)
(* key[i mod 4] of that frame's masking key, whatever the chunking.        *)
(***************************************************************************)
C6_DeliveredPayloadUnmasked ==
    isServer =>
        \A j \in 1..Len(frags) :
            j <= Len(Frames) =>
                /\ Len(frags[j].data) <= Len(Frames[j].body)
                /\ \A i \in 1..Len(frags[j].data) :
                      frags[j].data[i] =
                          Xor(Frames[j].body[i], Frames[j].key[((i - 1) % 4) + 1])
                /\ Consumed(j) => Len(frags[j].data) = Len(Frames[j].body)

\* a masked frame of MaxPayload bytes was delivered whole after its body had been
\* cut where the stored mask had to be rotated
C6_Witness ==
    /\ isServer
    /\ Consumed(1)
    /\ Len(frags) >= 1
    /\ Len(frags[1].data) = MaxPayload
    /\ ws.mask # <<0, 0, 0, 0>>
    /\ ws.mask # Frames[1].key

(***************************************************************************)
(* C7: once handle_fragment has returned true or force_close has been      *)
(* invoked, the consume call makes no further callback and leaves          *)
(* WebSocketState as it was at that callback; force_close is invoked at    *)
(* most once per consume call.                                             *)
(***************************************************************************)
C7_NothingAfterTermination ==
    term # <<>> => (Len(term) = 1 /\ ws = term[1].at)

\* the handler returned true on the call that completed the first frame, with
\* another frame behind it
C7_Witness ==
    /\ closed = "handlerStopped"
    /\ Len(term) = 1
    /\ term[1].cb = "handleFragment"
    /\ Len(Frames) >= 2
    /\ Len(frags) = 1
    /\ frags[1].remaining = U32Zero

(***************************************************************************)
(* C8: the handle_fragment calls occur in the order in which the frames,   *)
(* and the bytes inside each frame, arrive: the j-th delivery carries the  *)
(* FIN flag and the leading payload bytes of the j-th frame, and a control *)
(* frame between two fragments is delivered between them under its own    *)
(* opcode.                                                                 *)
(***************************************************************************)
C8_DeliveredInWireOrder ==
    /\ \A j \in 1..Len(frags) :
          j <= Len(Frames) =>
              /\ frags[j].fin = isFin(Frames[j].b0)
              /\ IsPrefix(frags[j].data, Payload(Frames[j]))
              /\ IF IsControl(Frames[j])
                 THEN frags[j].opCode = getOpCode(Frames[j].b0)
                 ELSE frags[j].opCode \in {TEXT, BINARY}
    /\ \A k \in 1..Len(Frames) : Consumed(k) => Len(frags) >= k

\* Text FIN=0, Ping, Continuation FIN=1 was delivered as fragment, Ping, fragment
C8_Witness ==
    /\ wire = <<1, 1, 65, 137, 0, 128, 1, 66>>
    /\ Consumed(3)
    /\ Len(frags) = 3
    /\ frags[2].opCode = PING
    /\ frags[3].data = <<66>>

\* what the two fragmented inputs of C9 deliver, with opcode op for the
\* Continuation frame
FragmentedInputs(op) ==
    /\ (wire = <<1, 3, 72, 101, 108, 128, 2, 108, 111>> /\ ~isServer /\ Consumed(2))
          => /\ Delivered(frags) =
                    << [opCode |-> TEXT, fin |-> FALSE, data |-> <<72, 101, 108>>],
                       [opCode |-> op, fin |-> TRUE, data |-> <<108, 111>>] >>
             /\ ws.opStack = -1
    /\ (wire = <<1, 1, 65, 137, 0, 128, 1, 66>> /\ ~isServer /\ Consumed(3))
          => Delivered(frags) =
                 << [opCode |-> TEXT, fin |-> FALSE, data |-> <<65>>],
                    [opCode |-> PING, fin |-> TRUE, data |-> <<>>],
                    [opCode |-> op, fin |-> TRUE, data |-> <<66>>] >>

(***************************************************************************)
(* C9, as stated: the Continuation frame of a fragmented message is        *)
(* delivered with opcode Continuation.                                     *)
(***************************************************************************)
C9_ContinuationOpcodeDelivered == FragmentedInputs(CONTINUATION)

(***************************************************************************)
(* C9, amended: the Continuation frame is delivered with the opcode of the *)
(* frame that opened the message, Text in both inputs.                     *)
(***************************************************************************)
C9_OpeningOpcodeDelivered == FragmentedInputs(TEXT)

\* 01 03 48 65 6C, 80 02 6C 6F has been consumed and delivered as two fragments
C9_Witness ==
    /\ wire = <<1, 3, 72, 101, 108, 128, 2, 108, 111>>
    /\ Consumed(2)
    /\ Len(frags) = 2
    /\ frags[2].data = <<108, 111>>

(***************************************************************************)
(* C10: a control frame that arrives while a data message is unfinished is *)
(* accepted and delivered, and once it has been consumed op_stack and      *)
(* op_code[0] have the values they had before it.                          *)
(***************************************************************************)
C10_ControlFrameInsideMessage ==
    \A k \in 2..Len(Frames) :
        (/\ IsControl(Frames[k])
         /\ ~ListedInvalid(Frames[k])
         /\ Unfinished(k)
         /\ Reaches(Frames[k]))
            => /\ closed = "forceClosed" => Len(frags) >= k
               /\ Consumed(k) /\ pos = EndOf(Frames[k]) - 1
                    => /\ Len(frags) = k
                       /\ frags[k].opCode = getOpCode(Frames[k].b0)
                       /\ ws.opStack = BoundaryCall(Frames[k]).ws.opStack
                       /\ ws.opCode[1] = BoundaryCall(Frames[k]).ws.opCode[1]

(***************************************************************************)
(* C11: at every return from consume op_stack is -1 or 0; the value 1      *)
(* never survives a return, also not one that leaves the body of a control *)
(* frame partially received.                                               *)
(***************************************************************************)
C11_OpStackAtReturn == ws.opStack \in {-1, 0}

\* C11 as the code has it: at every return from consume that leaves the
\* connection open op_stack is -1, 0 or 1, and it is 1 only while the body of
\* a control frame is partially received inside an unfinished message, or with
\* a Text or Binary opcode on top (a data frame the order test of C2 let into
\* an unfinished message)
C11_OpStackOneOnlyInsideMessage ==
    closed = "open" =>
        /\ ws.opStack \in {-1, 0, 1}
        /\ ws.opStack = 1 =>
              \/ ~ws.wantsHead /\ ws.opCode[2] \in {CLOSE, PING, PONG}
              \/ ws.opCode[2] \in {TEXT, BINARY}

\* a Ping inside an unfinished Text message whose body has not arrived whole
C11_Witness ==
    /\ closed = "open" /\ ws.opStack = 1 /\ ~ws.wantsHead
    /\ ws.opCode = <<TEXT, PING>> /\ ~U32Le(ws.remainingBytes, 0)

(***************************************************************************)
(* C12: at every return from consume with the connection not closed,       *)
(* wants_head is true if and only if remaining_bytes is 0.                 *)
(***************************************************************************)
C12_WantsHeadIffNothingRemains ==
    closed = "open" => (ws.wantsHead <=> ws.remainingBytes = U32Zero)

(***************************************************************************)
(* C13: at every return from consume with the connection not closed,       *)
(* spill_length is below LONG_HEADER, the bytes left at the spill step     *)
(* were at most LONG_HEADER - 1 and all of them are kept, and              *)
(* spill[0..spill_length) holds exactly the trailing input bytes that      *)
(* belong to a frame header that is not yet complete.                      *)
(***************************************************************************)
\* the bytes bs are the beginning of a frame header and not all of it
IncompleteHeader(srv, bs) ==
    Len(bs) < SHORT_MESSAGE_HEADER(srv) \/ Len(bs) < HeaderSize(srv, bs[2])

\* the frames of the bytes handed over so far
FramesSoFar == WireFrames(isServer, SubSeq(wire, 1, pos), 1)

Refused(f) ==
    /\ maxPayload # -1
    /\ ~U64Le(f.declared, maxPayload)
    /\ ~InvalidHeader(f.b0, f.b1, compressedOk)
    /\ Reaches(f)
    /\ ~OrderViolation(BoundaryCall(f).ws, getOpCode(f.b0))

C14_RefusedFrameClosesUndelivered ==
    \A k \in 1..Len(Frames) :
        Refused(Frames[k]) =>
            /\ Len(frags) < k
            /\ closed # "handlerStopped"
            /\ pos >= Frames[k].start + Frames[k].hdr - 1 =>
                  ForceClosed(ERR_TOO_BIG_MESSAGE) /\ Len(term) = 1

\* the second frame of a stream was refused on its long header
C14_Witness ==
    /\ Len(Frames) = 2 /\ payloadLength(Frames[2].b1) = 127 /\ Refused(Frames[2])
    /\ ForceClosed(ERR_TOO_BIG_MESSAGE)
    /\ Len(frags) = 1

(***************************************************************************)
(* C15: each handle_fragment call for an accepted frame carries            *)
(* remaining_bytes = payload length minus the payload bytes delivered up   *)
(* to and including that call; exactly one call of the frame, the last     *)
(* one, has remaining_bytes = 0, and the lengths of the frame's calls sum  *)
(* to the payload length.                                                  *)
(***************************************************************************)
C15_RemainingBytesAccount ==
    \A j \in 1..Len(frags) :
        /\ j <= Len(Frames)
        /\ frags[j].exact
        /\ <<frags[j].total[1], frags[j].total[2], 0, 0>> = Frames[j].declared
        /\ frags[j].sum = Len(frags[j].data)
        /\ frags[j].remaining = U32Zero <=> U64OfSmall(frags[j].sum) = Frames[j].declared

(***************************************************************************)
(* C16: every byte a consume(src, len, ...) call writes into the receive   *)
(* buffer lies in [src - CONSUME_PRE_PADDING, src + len +                  *)
(* CONSUME_POST_PADDING), in header mode with a complete and with an       *)
(* incomplete payload and in body-continuation mode, for both roles.  A    *)
(* byte whose value differs after the call has been written.               *)
(***************************************************************************)
\* the addresses of the receive buffer whose byte a consume call on the next n
\* bytes of the stream changes, relative to src
Changed(n) ==
    LET before == ReceiveBuffer(isServer, SubSeq(wire, pos + 1, pos + n))
        after == ConsumeNext(n, 0).mem
    IN  { a - (CONSUME_PRE_PADDING(isServer) + 1) :
            a \in { x \in DOMAIN before : after[x] # before[x] } }

C16_WritesInsidePadding ==
    closed = "open" =>
        \A n \in 0..(Len(wire) - pos) :
            \A a \in Changed(n) :
                /\ a >= 0 - CONSUME_PRE_PADDING(isServer)
                /\ a < n + CONSUME_POST_PADDING

(***************************************************************************)
(* C17: for all (opcode, payload, fin, compressed) with a valid opcode     *)
(* (0, 1, 2, 8, 9, 10), feeding the output of format_message (client       *)
(* framer into server parser, server framer into client parser) to consume *)
(* in its initial state, set_compressed returning true, delivers a single  *)
(* fragment whose payload, opcode, fin and compressed flag equal the       *)
(* inputs.                                                                 *)
(***************************************************************************)
\* the callbacks cs named cb
CallsOf(cs, cb) == { i \in 1..Len(cs) : cs[i].cb = cb }

\* the round trip gave the message back: one handle_fragment call with the
\* payload, opcode and FIN flag that were framed, set_compressed asked exactly
\* when the message was framed as compressed, and no force_close
GivesBack(a, r) ==
    /\ Cardinality(CallsOf(r.calls, "handleFragment")) = 1
    /\ \A i \in CallsOf(r.calls, "handleFragment") :
          /\ r.calls[i].data = a.payload
          /\ r.calls[i].len = U64OfSmall(Len(a.payload))
          /\ r.calls[i].remaining = U32Zero
          /\ r.calls[i].opCode = a.opCode
          /\ r.calls[i].fin = a.fin
    /\ (CallsOf(r.calls, "setCompressed") # {}) <=> a.compressed
    /\ CallsOf(r.calls, "forceClose") = {}

C17_RoundTripOfEveryOpcode ==
    (args.fn = "roundTrip" /\ result # <<>>) => GivesBack(args, result[1])

\* the frames the parser takes in its initial state: Text and Binary, and the
\* control opcodes with FIN set and at most 125 payload bytes
Deliverable(a) ==
    \/ a.opCode \in {TEXT, BINARY}
    \/ a.opCode \in {CLOSE, PING, PONG} /\ a.fin /\ Len(a.payload) <= 125

\* C17 as the code has it: the round trip gives back every Text and Binary
\* message and every control message with FIN set and at most 125 payload
\* bytes; every other framed message is answered with
\* force_close(ERR_PROTOCOL) and no fragment
C17_RoundTripOfDeliverable ==
    (args.fn = "roundTrip" /\ result # <<>>) =>
        IF Deliverable(args)
        THEN GivesBack(args, result[1])
        ELSE /\ CallsOf(result[1].calls, "handleFragment") = {}
             /\ \E i \in CallsOf(result[1].calls, "forceClose") :
                   result[1].calls[i].reason = ERR_PROTOCOL

\* a compressed, unfinished Text message of 126 bytes went from a client framer
\* through a server parser
C17_Witness ==
    /\ args.fn = "roundTrip" /\ result # <<>>
    /\ args.srv /\ args.opCode = TEXT /\ ~args.fin /\ args.compressed
    /\ Len(args.payload) = 126 /\ args.random # <<0, 0, 0, 0>>
    /\ GivesBack(args, result[1])

(***************************************************************************)
(* C18: with reported_len = len, format_message writes a length field of 2 *)
(* header bytes for len < 126, 4 for 126 <= len <= 65535 and 10 for        *)
(* len >= 65536, and returns message_frame_size(len) on a server and       *)
(* message_frame_size(len) + 4 on a client.                                *)
(***************************************************************************)
\* the length the length field of the frame bytes d states, for lengths below 2^31
StatedLength(d) ==
    IF d[2] % 128 < 126 THEN d[2] % 128
    ELSE IF d[2] % 128 = 126 THEN d[3] * 256 + d[4]
    ELSE IF SubSeq(d, 3, 6) = <<0, 0, 0, 0>> /\ d[7] < 128
    THEN ((d[7] * 256 + d[8]) * 256 + d[9]) * 256 + d[10]
    ELSE -1

C18_HeaderSizeAndFrameSize ==
    (args.fn = "formatMessage" /\ result # <<>>) =>
        LET n == args.length
            r == result[1]
            key == IF args.srv THEN 0 ELSE 4
            field == IF n < 126 THEN 2 ELSE IF n <= 65535 THEN 4 ELSE 10
        IN  /\ r.ret = messageFrameSize(n) + key
            /\ r.ret = field + key + n
            /\ Len(r.dst) = r.ret
            /\ r.dst[2] % 128 = (IF field = 2 THEN n ELSE IF field = 4 THEN 126 ELSE 127)
            /\ StatedLength(r.dst) = n
            /\ r.dst[2] >= 128 <=> ~args.srv

\* a client framed 126 bytes with a four-byte length field
C18_Witness ==
    /\ args.fn = "formatMessage" /\ result # <<>>
    /\ ~args.srv /\ args.length = 126
    /\ result[1].ret = 126 + 8
    /\ SubSeq(result[1].dst, 2, 4) = <<254, 0, 126>>

(***************************************************************************)
(* C19: for every code parse_close accepts (1000..1003, 1007..1011,        *)
(* 4000..4999) and every valid UTF-8 reason, parse_close applied to the    *)
(* bytes written by format_close(code, reason) returns that code, a        *)
(* message equal to the reason and length equal to the reason's length.    *)
(***************************************************************************)
\* bs is well-formed UTF-8 (RFC 3629, section 4)
RECURSIVE WellFormedUtf8(_)
WellFormedUtf8(bs) ==
    LET n == Len(bs)
        Cont(i) == i <= n /\ bs[i] \in 128..191
        Rest(k) == WellFormedUtf8(SubSeq(bs, k + 1, n))
    IN  IF n = 0 THEN TRUE
        ELSE IF bs[1] <= 127 THEN Rest(1)
        ELSE IF bs[1] \in 194..223 THEN Cont(2) /\ Rest(2)
        ELSE IF bs[1] = 224 THEN Cont(2) /\ bs[2] >= 160 /\ Cont(3) /\ Rest(3)
        ELSE IF bs[1] \in (225..236) \cup (238..239) THEN Cont(2) /\ Cont(3) /\ Rest(3)
        ELSE IF bs[1] = 237 THEN Cont(2) /\ bs[2] <= 159 /\ Cont(3) /\ Rest(3)
        ELSE IF bs[1] = 240
        THEN Cont(2) /\ bs[2] >= 144 /\ Cont(3) /\ Cont(4) /\ Rest(4)
        ELSE IF bs[1] \in 241..243 THEN Cont(2) /\ Cont(3) /\ Cont(4) /\ Rest(4)
        ELSE IF bs[1] = 244
        THEN Cont(2) /\ bs[2] <= 143 /\ Cont(3) /\ Cont(4) /\ Rest(4)
        ELSE FALSE

AcceptedCloseCodes == (1000..1003) \cup (1007..1011) \cup (4000..4999)

C19_CloseRoundTrip ==
    (/\ args.fn = "closeRoundTrip" /\ result # <<>>
     /\ args.code \in AcceptedCloseCodes
     /\ WellFormedUtf8(args.reason)) =>
        /\ result[1].framed.ret = Len(args.reason) + 2
        /\ Len(result[1].framed.dst) = result[1].framed.ret
        /\ result[1].parsed =
              [code |-> args.code, message |-> args.reason, length |-> Len(args.reason)]

\* the code 4999 with a reason that ends in a four-byte sequence behind 16
\* ASCII bytes went through
C19_Witness ==
    /\ args.fn = "closeRoundTrip" /\ result # <<>>
    /\ args.code = 4999
    /\ args.reason = Ascii16 \o <<194, 128>>
    /\ result[1].parsed.code = 4999
    /\ result[1].parsed.length = 18

C21_FormatClose ==
    (args.fn = "formatClosePayload" /\ result # <<>>) =>
        LET before == DstBefore(args.length + 4)
            r == result[1]
        IN  IF args.code \in {0, 1005, 1006}
            THEN r.ret = 0 /\ r.dst = before
            ELSE (args.message # nullptr \/ args.length = 0) =>
                    /\ r.ret = args.length + 2
                    /\ SubSeq(r.dst, 1, 2) = <<args.code \div 256, args.code % 256>>
                    /\ args.message # nullptr =>
                          SubSeq(r.dst, 3, args.length + 2)
                              = SubSeq(args.message[1], 1, args.length)
                    /\ SubSeq(r.dst, args.length + 3, args.length + 4) = <<170, 170>>

\* the code 1005 with a message left dst alone, or the code 1000 with nullptr
\* and length 0 wrote two bytes
C21_Witness ==
    /\ args.fn = "formatClosePayload" /\ result # <<>>
    /\ \/ /\ args.code = 1005 /\ args.length = 3
          /\ result[1] = [dst |-> DstBefore(7), ret |-> 0]
       \/ /\ args.code = 1000 /\ args.message = nullptr /\ args.length = 0
          /\ result[1] = [dst |-> <<3, 232, 170, 170>>, ret |-> 2]
(***************************************************************************)
(* C22: isValidUtf8 returns true exactly for the buffers that are          *)
(* well-formed UTF-8 (RFC 3629): it rejects the lead bytes C0 and C1, E0   *)
(* followed by 80..9F, ED followed by A0..BF, F0 followed by 80..8F, F4    *)
(* followed by a byte above 8F, lead bytes above F4, stray continuation    *)
(* bytes and sequences cut off by the end of the buffer, whether or not    *)
(* the test of 16 bytes at once succeeds.                                  *)
(***************************************************************************)
C22_ValidatorIsRfc3629 ==
    (args.fn = "isValidUtf8" /\ result # <<>>) =>
        (result[1] <=> WellFormedUtf8(args.s))

\* a surrogate after 16 ASCII bytes has been rejected
C22_Witness ==
    /\ args.fn = "isValidUtf8"
    /\ result = <<FALSE>>
    /\ args.s = Ascii16 \o <<237, 160, 128>>

(***************************************************************************)
(* C23: after move-constructing or move-assigning B from a distinct A, B   *)
(* holds the callable A held (or is empty if A was empty) and A is empty   *)
(* (A == nullptr); swap(A, B) exchanges the held callables in all four     *)
(* empty/non-empty combinations; assigning nullptr makes the object empty; *)
(* operator bool is true exactly when a callable is held.                  *)
(***************************************************************************)
\* what operator() of o reaches through call_ and storage_: the callable, or
\* <<>> when call_ is not that of what storage_ holds
Callee(o) ==
    IF o.call_ = o.storage_.kind
    THEN <<[size |-> o.storage_.kind, id |-> o.storage_.id]>>
    ELSE <<>>

\* o holds the callable f (<<>>: none): operator bool and the comparisons with
\* nullptr say so and a call reaches f
Holds(o, f) ==
    /\ o.alive
    /\ EqualsNullptr(o) = ~OperatorBool(o)
    /\ IF f = <<>> THEN ~OperatorBool(o)
       ELSE OperatorBool(o) /\ Callee(o) = f

\* what o held: the callable a call reaches if operator bool is true
Held(o) == IF OperatorBool(o) THEN Callee(o) ELSE <<>>

C23_MoveSwapAndNull ==
    LET B == objects[last.this]
        A == objects[last.rhs]
        before == last.before
    IN  /\ (last.op \in {"moveConstruct", "moveAssign"} /\ last.this # last.rhs) =>
              /\ Holds(B, Held(before[last.rhs]))
              /\ Holds(A, <<>>)
        /\ last.op = "swap" =>
              /\ Holds(B, Held(before[last.rhs]))
              /\ Holds(A, Held(before[last.this]))
        /\ last.op = "assignNullptr" => Holds(B, <<>>)
        /\ last.op = "construct" => Holds(B, <<>>)
        /\ last.op \in {"constructFrom", "assignFrom"} => Holds(B, last.f)
        /\ \A n \in Names \ {last.this, last.rhs} : objects[n] = before[n]

\* a small callable has been move-assigned from A over the large one B held
C23_Witness ==
    /\ last.op = "moveAssign"
    /\ last.this = "B" /\ last.rhs = "A"
    /\ Held(last.before["A"]) = <<[size |-> "small", id |-> 1]>>
    /\ Held(last.before["B"]) = <<[size |-> "large", id |-> 2]>>
    /\ Held(objects["B"]) = <<[size |-> "small", id |-> 1]>>
    /\ EqualsNullptr(objects["A"])

(***************************************************************************)
(* C24: from Idle (wants_head, op_stack = -1), consuming a Text or Binary  *)
(* frame whose header has FIN set and whose body completes in the buffer   *)
(* moves the parser to InMessage (wants_head, op_stack = 0).               *)
(***************************************************************************)
\* the parser is Idle at a frame boundary, and this consume call is handed
\* exactly the next frame, a whole Text or Binary frame with FIN = fin, and
\* leaves the connection open
IdleConsumesWholeDataFrame(fin) ==
    /\ closed = "open"
    /\ ws.wantsHead /\ ws.opStack = -1 /\ ws.spillLength = 0
    /\ WireFrames(isServer, wire, pos + 1) # <<>>
    /\ LET f == WireFrames(isServer, wire, pos + 1)[1]
       IN  /\ IsData(f)
           /\ isFin(f.b0) = fin
           /\ f.whole
           /\ pos' = EndOf(f) - 1
    /\ closed' = "open"

C24_FinFrameEntersMessage ==
    [][IdleConsumesWholeDataFrame(TRUE) => (ws'.wantsHead /\ ws'.opStack = 0)]_vars

\* C24 as the code has it: the frame with FIN set leaves the parser Idle, the
\* opcode pushed on entry being popped after the fragment is delivered; the
\* frame with FIN clear moves it to InMessage with its opcode at level 0
C24_FinFrameReturnsToIdle ==
    [][/\ IdleConsumesWholeDataFrame(TRUE) => (ws'.wantsHead /\ ws'.opStack = -1)
       /\ IdleConsumesWholeDataFrame(FALSE) =>
             /\ ws'.wantsHead /\ ws'.opStack = 0
             /\ ws'.opCode[1] = getOpCode(wire[pos + 1])]_vars

\* the first frame, Text or Binary with FIN set and a payload, has been
\* delivered by the branch for a whole frame (remainingBytes was never written)
\* and the parser is Idle again
C24_Witness ==
    /\ closed = "open"
    /\ Frames # <<>>
    /\ IsData(Frames[1]) /\ isFin(Frames[1].b0) /\ Frames[1].whole
    /\ Frames[1].body # <<>>
    /\ pos = EndOf(Frames[1]) - 1
    /\ Len(frags) = 1 /\ frags[1].fin
    /\ ws.remainingBytes = U32Zero
    /\ ws.wantsHead /\ ws.opStack = -1

(***************************************************************************)
(* C25: the opcode argument of every handle_fragment call is               *)
(* op_code[op_stack] at the time of the call: for a Continuation frame it  *)
(* is the opcode (Text or Binary) of the frame that opened the message,    *)
(* and for a frame whose body spans several consume calls every call       *)
(* carries the same opcode and the same FIN flag as its first call.        *)
(***************************************************************************)
\* how many of the frames i+1..m open a message (Text or Binary with FIN
\* clear) and how many end one (Continuation with FIN set)
OpenedIn(i, m) ==
    Cardinality({ j \in (i + 1)..m : IsData(Frames[j]) /\ ~isFin(Frames[j].b0) })
EndedIn(i, m) ==
    Cardinality({ j \in (i + 1)..m :
                    getOpCode(Frames[j].b0) = CONTINUATION /\ isFin(Frames[j].b0) })

\* frame i opened the message that frame k continues: a Text or Binary frame
\* with FIN clear in front of frame k, whose message has not ended in front of
\* frame k while every message opened behind frame i has
OpenedMessageOf(i, k) ==
    /\ i < k
    /\ IsData(Frames[i]) /\ ~isFin(Frames[i].b0)
    /\ OpenedIn(i, k - 1) = EndedIn(i, k - 1)
    /\ \A m \in (i + 1)..(k - 1) : EndedIn(i, m) <= OpenedIn(i, m)

C25_OpcodeOfEveryCall ==
    \A k \in 1..Len(frags) :
        k <= Len(Frames) =>
            /\ frags[k].top
            /\ frags[k].same
            /\ getOpCode(Frames[k].b0) = CONTINUATION =>
                  \E i \in 1..(k - 1) :
                      /\ OpenedMessageOf(i, k)
                      /\ frags[k].opCode = getOpCode(Frames[i].b0)

\* a Binary message of two frames has been delivered, the Continuation frame
\* with opcode Binary and in more than one call
C25_Witness ==
    /\ closed = "open"
    /\ Len(Frames) >= 2
    /\ getOpCode(Frames[1].b0) = BINARY /\ ~isFin(Frames[1].b0)
    /\ getOpCode(Frames[2].b0) = CONTINUATION /\ Frames[2].whole
    /\ pos = EndOf(Frames[2]) - 1
    /\ Len(frags) = 2
    /\ frags[2].opCode = BINARY
    /\ frags[2].data = Payload(Frames[2])
    /\ frags[2].sum = Len(Frames[2].body)
    /\ frags[1].remaining = U32Zero
    /\ ws.remainingBytes # U32Zero

(***************************************************************************)
(* C26: on a server, whenever consume returns with a frame body in         *)
(* progress (wants_head = false), state.mask[i] = key[(d + i) mod 4] for   *)
(* i in 0..3, key being the masking key of the frame in progress and d the *)
(* number of its payload bytes already delivered: after the first partial  *)
(* read and after every further partial read of any length, multiples of 4 *)
(* and 0 included.                                                         *)
(***************************************************************************)
C26_MaskRotatedByDelivered ==
    (isServer /\ closed = "open" /\ ~ws.wantsHead) =>
        /\ FramesSoFar # <<>>
        /\ LET f == FramesSoFar[Len(FramesSoFar)]
               d == Len(f.body)
           IN  /\ ~f.whole
               /\ frags # <<>> /\ Len(frags[Len(frags)].data) = d
               /\ \A i \in 0..3 : ws.mask[i + 1] = f.key[((d + i) % 4) + 1]

\* a server has delivered 5 payload bytes of a frame in progress whose key has
\* four different bytes, and mask is the key rotated by one
C26_Witness ==
    /\ isServer /\ closed = "open" /\ ~ws.wantsHead
    /\ FramesSoFar # <<>>
    /\ LET f == FramesSoFar[Len(FramesSoFar)]
       IN  /\ ~f.whole
           /\ Len(f.body) = 5
           /\ Cardinality({f.key[i] : i \in 1..4}) = 4
           /\ ws.mask = <<f.key[2], f.key[3], f.key[4], f.key[1]>>

(***************************************************************************)
(* C27: when a server-side frame is complete in the buffer, unmasking      *)
(* changes no buffer byte at or after src + HDR + payload_len, for the     *)
(* header sizes 6, 8 and 14 and every payload length, so the header of a   *)
(* following frame in the same buffer is parsed from its original bytes.   *)
(***************************************************************************)
\* the frames of the stream from the next byte on, the parser being at a
\* frame boundary
FramesAhead == WireFrames(isServer, wire, pos + 1)

AtFrameBoundary == closed = "open" /\ ws.wantsHead /\ ws.spillLength = 0

C27_UnmaskingStaysInsideFrame ==
    (isServer /\ AtFrameBoundary /\ FramesAhead # <<>>) =>
        \* the buffer holds the frame alone, or the frame and the header of
        \* the following frame but for its last byte
        LET f == FramesAhead[1]
            n == f.hdr + Len(f.body)
        IN  f.whole =>
               /\ \A a \in Changed(n) : a < n
               /\ Len(FramesAhead) > 1 =>
                     \A a \in Changed(n + FramesAhead[2].hdr - 1) : a < n

\* a server at the start of a whole frame with a header of 8 bytes and a
\* payload that unmasking changes, a frame following
C27_Witness ==
    /\ isServer /\ AtFrameBoundary
    /\ Len(FramesAhead) > 1
    /\ FramesAhead[1].whole
    /\ FramesAhead[1].hdr = 8
    /\ Len(FramesAhead[1].body) > 0
    /\ Changed(FramesAhead[1].hdr + Len(FramesAhead[1].body)) # {}

(***************************************************************************)
(* C28: when the payload of a frame reaches beyond the buffer (Case B),    *)
(* the stored remaining_bytes equals payload_len - (len - HDR) as an exact *)
(* integer for every payload_len that is not refused, 64-bit lengths of    *)
(* 2^32 and more included: it is never truncated modulo 2^32 and never 0.  *)
(***************************************************************************)
\* at a frame boundary consume is handed the whole header of the next frame
\* and present payload bytes, fewer than the header declares, and leaves the
\* connection open
PartialFrameConsumed ==
    /\ AtFrameBoundary
    /\ FramesAhead # <<>>
    /\ pos' - pos >= FramesAhead[1].hdr
    /\ ~U64Le(FramesAhead[1].declared, pos' - pos - FramesAhead[1].hdr)
    /\ closed' = "open"

C28_RemainingBytesExact ==
    [][PartialFrameConsumed =>
          LET present == pos' - pos - FramesAhead[1].hdr
              stored == <<ws'.remainingBytes[1], ws'.remainingBytes[2], 0, 0>>
          IN  /\ ~ws'.wantsHead
              /\ U64Add(stored, present) = FramesAhead[1].declared
              /\ ws'.remainingBytes # U32Zero]_vars

(***************************************************************************)
(* C29: the branch for a whole frame is taken only when the buffer really  *)
(* holds the whole frame (HDR + payload_len <= len in unbounded            *)
(* arithmetic); for a 64-bit declared length close to 2^64 the sum         *)
(* payload_len + HDR does not wrap around so as to select that branch and  *)
(* unmask or deliver bytes beyond the buffer.                              *)
(***************************************************************************)
C29_WholeFrameBranchInsideBuffer ==
    /\ closed \notin {"crashed", "corrupted"}
    /\ \A i \in 1..Len(term) : term[i].cb # "beyondBuffer"

(***************************************************************************)
(* C30: for each inbound frame whose RSV1 bit is set, set_compressed is    *)
(* called exactly once, whatever the chunking of the input; it is not      *)
(* called again for the same frame when a medium or long header is split   *)
(* across consume calls and examined again from the spill.                 *)
(***************************************************************************)
\* the frames handed over so far, header complete, whose RSV1 bit is set
CompressedSoFar == { k \in 1..Len(FramesSoFar) : rsv1(FramesSoFar[k].b0) }

C30_SetCompressedOncePerFrame ==
    (closed = "open" /\ ws.spillLength = 0
     /\ Cardinality(CompressedSoFar) < MaxCompressedCalls) =>
        compressedCalls = Cardinality(CompressedSoFar)

(***************************************************************************)
(* C31: at every return from consume with the connection not closed,       *)
(* wants_head = false implies spill_length = 0: while the parser awaits    *)
(* the rest of a frame body it holds no spilled header bytes, so the next  *)
(* consume call prepends nothing to the body bytes.                        *)
(***************************************************************************)
C31_NoSpillWhileAwaitingBody ==
    (closed = "open" /\ ~ws.wantsHead) =>
        /\ ws.spillLength = 0
        /\ rest = 0

\* the header of the one frame so far was examined twice (setCompressed was
\* called twice for it), the first time from a buffer that ended inside it and
\* was spilled, and the body is still awaited
C31_Witness ==
    /\ closed = "open" /\ ~ws.wantsHead /\ ws.spillLength = 0
    /\ Len(FramesSoFar) = 1
    /\ FramesSoFar[1].hdr > SHORT_MESSAGE_HEADER(isServer)
    /\ compressedCalls = 2

(***************************************************************************)
(* C32: every consume call on a finite buffer terminates, given that the   *)
(* handler callbacks return: each iteration of the header loop returns,    *)
(* breaks to the spill step, or advances src by at least one header size.  *)
(***************************************************************************)
C32_ConsumeTerminates == closed # "hung"

(***************************************************************************)
(* C33: a server-role parser delivers fragments only from frames whose     *)
(* MASK bit (bit 7 of header byte 1) is 1: a frame received with MASK = 0  *)
(* produces no handle_fragment call; and a server-role format_message      *)
(* never sets the MASK bit while a client-role format_message always sets  *)
(* it.                                                                     *)
(***************************************************************************)
\* bit 7 of the second header byte
MaskBit(b1) == b1 \div 128 = 1

C33_ServerDeliversMaskedFramesOnly ==
    /\ isServer =>
          \A j \in 1..Len(frags) : j <= Len(Frames) => MaskBit(Frames[j].b1)
    /\ \A op \in {TEXT, BINARY}, n \in {0, 1, 126} :
          /\ ~MaskBit(formatMessage(TRUE, FramePayload(n), op, n, FALSE, TRUE,
                                    <<0, 0, 0, 0>>).dst[2])
          /\ MaskBit(formatMessage(FALSE, FramePayload(n), op, n, FALSE, TRUE,
                                   <<55, 250, 33, 61>>).dst[2])

(***************************************************************************)
(* C34: across any sequence of construct-from-callable, move-construct,    *)
(* move-assign (self-assignment included), assign-from-callable,           *)
(* assign-nullptr, swap and destructor operations, every wrapped callable  *)
(* (inline or heap-stored) is destroyed exactly once, no two live objects  *)
(* own the same heap callable, and no object with a non-null handle refers *)
(* to a destroyed callable.                                                *)
(***************************************************************************)
\* the constructed objects with a handle_ whose storage_ holds the callable f
Owners(f) ==
    { n \in Names : /\ objects[n].alive
                    /\ objects[n].handle_ # "nullptr"
                    /\ objects[n].storage_ = [kind |-> f.size, id |-> f.id] }

C34_DestroyedExactlyOnce ==
    /\ \A f \in Callables :
          /\ lifetime[f] # "destroyedAgain"
          /\ Cardinality(Owners(f)) <= 1
          /\ lifetime[f] = "live" <=> Owners(f) # {}
    /\ \A n \in Names :
          (objects[n].alive /\ objects[n].handle_ # "nullptr") =>
              /\ objects[n].storage_.kind = objects[n].handle_
              /\ lifetime[[size |-> objects[n].storage_.kind,
                           id |-> objects[n].storage_.id]] = "live"

\* A, which held a large callable, has been move-assigned to itself and still
\* owns it, alive; B and C are gone and so is every other callable that was
\* wrapped, each destroyed once: a small and a large one
C34_Witness ==
    /\ last.op = "moveAssign" /\ last.this = "A" /\ last.rhs = "A"
    /\ Owners([size |-> "large", id |-> 1]) = {"A"}
    /\ lifetime[[size |-> "large", id |-> 1]] = "live"
    /\ lifetime[[size |-> "small", id |-> 1]] = "destroyed"
    /\ lifetime[[size |-> "large", id |-> 2]] = "destroyed"
    /\ ~objects["B"].alive /\ ~objects["C"].alive

====
